---- MODULE Spec2Model ----
(***************************************************************************)
(* Model of Perek119Web (src/app.py): the verse cleaner, the stanza        *)
(* partitioner, the name-to-stanza resolver, the two document builders and *)
(* the Streamlit script (memoized load, single-name tab, Excel batch tab). *)
(*                                                                         *)
(* A Python str is modelled as a sequence of one-character strings; a      *)
(* fixed literal of the source may appear as one multi-character chunk.    *)
(* A character that a TLA+ string cannot hold is the chunk of its decimal   *)
(* code point. Every script run executes both tabs, top to bottom. A run    *)
(* is two steps or more: the call of load_tehillim_119() at line 170, which *)
(* may block on the cache's lock and in the request, and then the rest of  *)
(* the script; the runs of different sessions interleave between steps.    *)
(* A Python exception is modelled as a result record with raised = TRUE.   *)
(***************************************************************************)
EXTENDS Integers, Sequences, FiniteSets, TLC

VARIABLES
    \* ---- the Streamlit process ----
    pdf_renders,    \* deployment: the fpdf calls (add_font, output) succeed
    cache,          \* st.cache_data entry of load_tehillim_119: <<>> or <<verses>>
    fetches,        \* number of requests.get calls made by the process
    pc,             \* per session, where its script run is: "idle" (no run in
                    \* progress), "waiting" (in load_tehillim_119(), blocked on
                    \* the lock st.cache_data holds while a value is computed),
                    \* "fetching" (holds that lock, blocked in requests.get) or
                    \* "loaded" (load_tehillim_119() has returned or raised at
                    \* line 170, the rest of the script has not run)
    loaded,         \* per session, <<>> or <<[fetched, res]>>: what the call of
                    \* line 170 gave the run in progress, res, and the answer of
                    \* the request it made, <<>> when it made none
    \* ---- the script run that ended last ----
    fetched,        \* <<>> or <<outcome>>: the fetch made by the current run
    halted,         \* the current script run died in the module-level load
    verses_119,     \* module global of the current run (<<>> when not assigned)
    stanzas_119,    \* module global of the current run (<<>> when not assigned)
    errors,         \* st.error messages shown by the current run, in page order
    format_choice_single,  \* single tab: the radio, "DOCX" or "PDF" ("" when the
                           \* run did not reach the widget)
    single_resolved,       \* single tab: names passed to a builder by the run
    download,       \* single tab: <<>> or <<[file_name, data]>>
    uploaded,       \* Excel tab: <<>> or <<file>>, the uploader of the current run
    batch_format,   \* Excel tab: the radio, "DOCX" or "PDF" ("" when not reached)
    batch_resolved, \* Excel tab: names passed to a builder by the run, in order
    zip_made,       \* Excel tab: the run created the zip archive
    zip_entries,    \* Excel tab: entries written with zf.writestr, in order
    names,          \* Excel tab: the filtered list the batch loop iterates
    reported,       \* Excel tab: <<>> or <<n>>, the n of the st.success message
    \* ---- harness of the pure functions ----
    fpc,            \* "off", "ready" (inputs drawn) or "done" (function applied)
    r_name, r_stanzas, r_sections,   \* get_stanzas_for_name(name, stanzas)
    c_tokens, c_out, c_error,        \* clean_hebrew_verse(raw): the text returned
                                     \* or the message of the exception raised
    p_verses, p_out                  \* build_stanzas(verses_119)

machine_vars == <<pdf_renders, cache, fetches, pc, loaded, fetched, halted, verses_119,
                  stanzas_119, errors, format_choice_single, single_resolved, download,
                  uploaded, batch_format, batch_resolved, zip_made, zip_entries, names,
                  reported>>
pure_vars ==
    <<fpc, r_name, r_stanzas, r_sections, c_tokens, c_out, c_error, p_verses, p_out>>
vars == <<machine_vars, pure_vars>>

\* ------------------------------------------------------------------ bounds
MaxNameLen == 3
MaxTokens == 4
MaxRows == 2
MaxFetches == 2
MaxSessions == 2

\* ------------------------------------------------------- program constants
NumVerses == 176
StanzaLen == 8

\* ------------------------------------------------------------ Python helpers
\* str.isspace(): the 29 characters str.strip() removes, in code point order:
\* U+0009..U+000D, U+001C..U+001F, U+0020, U+0085, U+00A0, U+1680,
\* U+2000..U+200A, U+2028, U+2029, U+202F, U+205F, U+3000.
\* A character that a TLA+ string cannot hold is written as the chunk of its
\* decimal code point ("8192" is U+2000), here and in html.unescape below.
Whitespace ==
    {"\t", "\n", "", "\f", "\r", "", "", "", "", " ", "", " ", " ", "8192", "8193",
      "8194", "8195", "8196", "8197", "8198", "8199", "8200", "8201", "8202", "8232", "8233",
      "8239", "8287", "12288"}

RECURSIVE lstrip(_)
lstrip(s) == IF s # <<>> /\ Head(s) \in Whitespace THEN lstrip(Tail(s)) ELSE s

RECURSIVE rstrip(_)
rstrip(s) ==
    IF s # <<>> /\ s[Len(s)] \in Whitespace THEN rstrip(SubSeq(s, 1, Len(s) - 1)) ELSE s

strip(s) == rstrip(lstrip(s))

\* s[a:b] of Python for 0 <= a <= b (clipped at the end of s)
Slice(s, a, b) ==
    LET hi == IF b > Len(s) THEN Len(s) ELSE b
    IN  IF a >= hi THEN <<>> ELSE SubSeq(s, a + 1, hi)

StartsWithAt(s, i, pat) ==
    /\ i + Len(pat) - 1 <= Len(s)
    /\ \A k \in 1..Len(pat) : s[i + k - 1] = pat[k]

\* s.replace(pat, rep): non-overlapping occurrences, left to right
RECURSIVE ReplaceFrom(_, _, _, _)
ReplaceFrom(s, i, pat, rep) ==
    IF i > Len(s) THEN <<>>
    ELSE IF StartsWithAt(s, i, pat) THEN rep \o ReplaceFrom(s, i + Len(pat), pat, rep)
    ELSE <<s[i]>> \o ReplaceFrom(s, i + 1, pat, rep)

replace(s, pat, rep) == ReplaceFrom(s, 1, pat, rep)

\* str(n) of a non-negative int
RECURSIVE str_int(_)
str_int(n) ==
    LET d == <<"0", "1", "2", "3", "4", "5", "6", "7", "8", "9">>
    IN  IF n < 10 THEN <<d[n + 1]>> ELSE str_int(n \div 10) \o <<d[(n % 10) + 1]>>

\* -------------------------------------------------------------- core logic
ALEPH_BET ==
    << "א", "ב", "ג", "ד", "ה", "ו", "ז", "ח", "ט", "י",
       "כ", "ל", "מ", "נ", "ס", "ע", "פ", "צ", "ק", "ר",
       "ש", "ת" >>

\* letter_to_index.get(letter): the 0-based index, or -1 for Python's None
letter_to_index_get(letter) ==
    IF \E i \in 1..Len(ALEPH_BET) : ALEPH_BET[i] = letter
    THEN (CHOOSE i \in 1..Len(ALEPH_BET) : ALEPH_BET[i] = letter) - 1
    ELSE -1

\* ---- Python exceptions as results
Raised(msg) == [raised |-> TRUE, error |-> msg, value |-> <<>>]
Returned(v) == [raised |-> FALSE, error |-> <<>>, value |-> v]

\* ---- html.unescape (Lib/html/__init__.py of Python 3.11)
\* html.entities.html5: every name, with its ";" when it has one, and the text
\* that replaces it
Html5Pairs ==
    { <<<<"A", "E", "l", "i", "g">>, <<"Æ">>>>, <<<<"A", "E", "l", "i", "g", ";">>, <<"Æ">>>>,
      <<<<"A", "M", "P">>, <<"&">>>>, <<<<"A", "M", "P", ";">>, <<"&">>>>,
      <<<<"A", "a", "c", "u", "t", "e">>, <<"Á">>>>,
      <<<<"A", "a", "c", "u", "t", "e", ";">>, <<"Á">>>>,
      <<<<"A", "b", "r", "e", "v", "e", ";">>, <<"258">>>>,
      <<<<"A", "c", "i", "r", "c">>, <<"Â">>>>, <<<<"A", "c", "i", "r", "c", ";">>, <<"Â">>>>,
      <<<<"A", "c", "y", ";">>, <<"1040">>>>, <<<<"A", "f", "r", ";">>, <<"120068">>>>,
      <<<<"A", "g", "r", "a", "v", "e">>, <<"À">>>>,
      <<<<"A", "g", "r", "a", "v", "e", ";">>, <<"À">>>>,
      <<<<"A", "l", "p", "h", "a", ";">>, <<"Α">>>>,
      <<<<"A", "m", "a", "c", "r", ";">>, <<"256">>>>, <<<<"A", "n", "d", ";">>, <<"10835">>>>,
      <<<<"A", "o", "g", "o", "n", ";">>, <<"260">>>>,
      <<<<"A", "o", "p", "f", ";">>, <<"120120">>>>,
      <<<<"A", "p", "p", "l", "y", "F", "u", "n", "c", "t", "i", "o", "n", ";">>, <<"8289">>>>,
      <<<<"A", "r", "i", "n", "g">>, <<"Å">>>>, <<<<"A", "r", "i", "n", "g", ";">>, <<"Å">>>>,
      <<<<"A", "s", "c", "r", ";">>, <<"119964">>>>,
      <<<<"A", "s", "s", "i", "g", "n", ";">>, <<"8788">>>>,
      <<<<"A", "t", "i", "l", "d", "e">>, <<"Ã">>>>,
      <<<<"A", "t", "i", "l", "d", "e", ";">>, <<"Ã">>>>, <<<<"A", "u", "m", "l">>, <<"Ä">>>>,
      <<<<"A", "u", "m", "l", ";">>, <<"Ä">>>>,
      <<<<"B", "a", "c", "k", "s", "l", "a", "s", "h", ";">>, <<"8726">>>>,
      <<<<"B", "a", "r", "v", ";">>, <<"⫧">>>>,
      <<<<"B", "a", "r", "w", "e", "d", ";">>, <<"8966">>>>,
      <<<<"B", "c", "y", ";">>, <<"1041">>>>,
      <<<<"B", "e", "c", "a", "u", "s", "e", ";">>, <<"8757">>>>,
      <<<<"B", "e", "r", "n", "o", "u", "l", "l", "i", "s", ";">>, <<"8492">>>>,
      <<<<"B", "e", "t", "a", ";">>, <<"Β">>>>, <<<<"B", "f", "r", ";">>, <<"120069">>>>,
      <<<<"B", "o", "p", "f", ";">>, <<"120121">>>>,
      <<<<"B", "r", "e", "v", "e", ";">>, <<"˘">>>>,
      <<<<"B", "s", "c", "r", ";">>, <<"8492">>>>,
      <<<<"B", "u", "m", "p", "e", "q", ";">>, <<"8782">>>>,
      <<<<"C", "H", "c", "y", ";">>, <<"1063">>>>, <<<<"C", "O", "P", "Y">>, <<"©">>>>,
      <<<<"C", "O", "P", "Y", ";">>, <<"©">>>>,
      <<<<"C", "a", "c", "u", "t", "e", ";">>, <<"262">>>>,
      <<<<"C", "a", "p", ";">>, <<"⋒">>>>,
      <<<<"C", "a", "p", "i", "t", "a", "l", "D", "i", "f", "f", "e", "r", "e", "n", "t", "i", "a", "l", "D", ";">>, <<"8517">>>>,
      <<<<"C", "a", "y", "l", "e", "y", "s", ";">>, <<"8493">>>>,
      <<<<"C", "c", "a", "r", "o", "n", ";">>, <<"268">>>>,
      <<<<"C", "c", "e", "d", "i", "l">>, <<"Ç">>>>,
      <<<<"C", "c", "e", "d", "i", "l", ";">>, <<"Ç">>>>,
      <<<<"C", "c", "i", "r", "c", ";">>, <<"264">>>>,
      <<<<"C", "c", "o", "n", "i", "n", "t", ";">>, <<"8752">>>>,
      <<<<"C", "d", "o", "t", ";">>, <<"266">>>>,
      <<<<"C", "e", "d", "i", "l", "l", "a", ";">>, <<"¸">>>>,
      <<<<"C", "e", "n", "t", "e", "r", "D", "o", "t", ";">>, <<"·">>>>,
      <<<<"C", "f", "r", ";">>, <<"8493">>>>, <<<<"C", "h", "i", ";">>, <<"Χ">>>>,
      <<<<"C", "i", "r", "c", "l", "e", "D", "o", "t", ";">>, <<"⊙">>>>,
      <<<<"C", "i", "r", "c", "l", "e", "M", "i", "n", "u", "s", ";">>, <<"⊖">>>>,
      <<<<"C", "i", "r", "c", "l", "e", "P", "l", "u", "s", ";">>, <<"⊕">>>>,
      <<<<"C", "i", "r", "c", "l", "e", "T", "i", "m", "e", "s", ";">>, <<"⊗">>>>,
      <<<<"C", "l", "o", "c", "k", "w", "i", "s", "e", "C", "o", "n", "t", "o", "u", "r", "I", "n", "t", "e", "g", "r", "a", "l", ";">>, <<"8754">>>>,
      <<<<"C", "l", "o", "s", "e", "C", "u", "r", "l", "y", "D", "o", "u", "b", "l", "e", "Q", "u", "o", "t", "e", ";">>, <<"8221">>>>,
      <<<<"C", "l", "o", "s", "e", "C", "u", "r", "l", "y", "Q", "u", "o", "t", "e", ";">>, <<"8217">>>>,
      <<<<"C", "o", "l", "o", "n", ";">>, <<"8759">>>>,
      <<<<"C", "o", "l", "o", "n", "e", ";">>, <<"10868">>>>,
      <<<<"C", "o", "n", "g", "r", "u", "e", "n", "t", ";">>, <<"8801">>>>,
      <<<<"C", "o", "n", "i", "n", "t", ";">>, <<"8751">>>>,
      <<<<"C", "o", "n", "t", "o", "u", "r", "I", "n", "t", "e", "g", "r", "a", "l", ";">>, <<"8750">>>>,
      <<<<"C", "o", "p", "f", ";">>, <<"8450">>>>,
      <<<<"C", "o", "p", "r", "o", "d", "u", "c", "t", ";">>, <<"8720">>>>,
      <<<<"C", "o", "u", "n", "t", "e", "r", "C", "l", "o", "c", "k", "w", "i", "s", "e", "C", "o", "n", "t", "o", "u", "r", "I", "n", "t", "e", "g", "r", "a", "l", ";">>, <<"8755">>>>,
      <<<<"C", "r", "o", "s", "s", ";">>, <<"10799">>>>,
      <<<<"C", "s", "c", "r", ";">>, <<"119966">>>>, <<<<"C", "u", "p", ";">>, <<"⋓">>>>,
      <<<<"C", "u", "p", "C", "a", "p", ";">>, <<"8781">>>>, <<<<"D", "D", ";">>, <<"8517">>>>,
      <<<<"D", "D", "o", "t", "r", "a", "h", "d", ";">>, <<"10513">>>>,
      <<<<"D", "J", "c", "y", ";">>, <<"1026">>>>, <<<<"D", "S", "c", "y", ";">>, <<"1029">>>>,
      <<<<"D", "Z", "c", "y", ";">>, <<"1039">>>>,
      <<<<"D", "a", "g", "g", "e", "r", ";">>, <<"8225">>>>,
      <<<<"D", "a", "r", "r", ";">>, <<"↡">>>>, <<<<"D", "a", "s", "h", "v", ";">>, <<"⫤">>>>,
      <<<<"D", "c", "a", "r", "o", "n", ";">>, <<"270">>>>,
      <<<<"D", "c", "y", ";">>, <<"1044">>>>, <<<<"D", "e", "l", ";">>, <<"8711">>>>,
      <<<<"D", "e", "l", "t", "a", ";">>, <<"Δ">>>>, <<<<"D", "f", "r", ";">>, <<"120071">>>>,
      <<<<"D", "i", "a", "c", "r", "i", "t", "i", "c", "a", "l", "A", "c", "u", "t", "e", ";">>, <<"´">>>>,
      <<<<"D", "i", "a", "c", "r", "i", "t", "i", "c", "a", "l", "D", "o", "t", ";">>, <<"˙">>>>,
      <<<<"D", "i", "a", "c", "r", "i", "t", "i", "c", "a", "l", "D", "o", "u", "b", "l", "e", "A", "c", "u", "t", "e", ";">>, <<"˝">>>>,
      <<<<"D", "i", "a", "c", "r", "i", "t", "i", "c", "a", "l", "G", "r", "a", "v", "e", ";">>, <<"96">>>>,
      <<<<"D", "i", "a", "c", "r", "i", "t", "i", "c", "a", "l", "T", "i", "l", "d", "e", ";">>, <<"˜">>>>,
      <<<<"D", "i", "a", "m", "o", "n", "d", ";">>, <<"⋄">>>>,
      <<<<"D", "i", "f", "f", "e", "r", "e", "n", "t", "i", "a", "l", "D", ";">>, <<"8518">>>>,
      <<<<"D", "o", "p", "f", ";">>, <<"120123">>>>, <<<<"D", "o", "t", ";">>, <<"¨">>>>,
      <<<<"D", "o", "t", "D", "o", "t", ";">>, <<"⃜">>>>,
      <<<<"D", "o", "t", "E", "q", "u", "a", "l", ";">>, <<"8784">>>>,
      <<<<"D", "o", "u", "b", "l", "e", "C", "o", "n", "t", "o", "u", "r", "I", "n", "t", "e", "g", "r", "a", "l", ";">>, <<"8751">>>>,
      <<<<"D", "o", "u", "b", "l", "e", "D", "o", "t", ";">>, <<"¨">>>>,
      <<<<"D", "o", "u", "b", "l", "e", "D", "o", "w", "n", "A", "r", "r", "o", "w", ";">>, <<"⇓">>>>,
      <<<<"D", "o", "u", "b", "l", "e", "L", "e", "f", "t", "A", "r", "r", "o", "w", ";">>, <<"⇐">>>>,
      <<<<"D", "o", "u", "b", "l", "e", "L", "e", "f", "t", "R", "i", "g", "h", "t", "A", "r", "r", "o", "w", ";">>, <<"⇔">>>>,
      <<<<"D", "o", "u", "b", "l", "e", "L", "e", "f", "t", "T", "e", "e", ";">>, <<"⫤">>>>,
      <<<<"D", "o", "u", "b", "l", "e", "L", "o", "n", "g", "L", "e", "f", "t", "A", "r", "r", "o", "w", ";">>, <<"⟸">>>>,
      <<<<"D", "o", "u", "b", "l", "e", "L", "o", "n", "g", "L", "e", "f", "t", "R", "i", "g", "h", "t", "A", "r", "r", "o", "w", ";">>, <<"⟺">>>>,
      <<<<"D", "o", "u", "b", "l", "e", "L", "o", "n", "g", "R", "i", "g", "h", "t", "A", "r", "r", "o", "w", ";">>, <<"⟹">>>>,
      <<<<"D", "o", "u", "b", "l", "e", "R", "i", "g", "h", "t", "A", "r", "r", "o", "w", ";">>, <<"⇒">>>>,
      <<<<"D", "o", "u", "b", "l", "e", "R", "i", "g", "h", "t", "T", "e", "e", ";">>, <<"⊨">>>>,
      <<<<"D", "o", "u", "b", "l", "e", "U", "p", "A", "r", "r", "o", "w", ";">>, <<"⇑">>>>,
      <<<<"D", "o", "u", "b", "l", "e", "U", "p", "D", "o", "w", "n", "A", "r", "r", "o", "w", ";">>, <<"⇕">>>>,
      <<<<"D", "o", "u", "b", "l", "e", "V", "e", "r", "t", "i", "c", "a", "l", "B", "a", "r", ";">>, <<"8741">>>>,
      <<<<"D", "o", "w", "n", "A", "r", "r", "o", "w", ";">>, <<"↓">>>>,
      <<<<"D", "o", "w", "n", "A", "r", "r", "o", "w", "B", "a", "r", ";">>, <<"10515">>>>,
      <<<<"D", "o", "w", "n", "A", "r", "r", "o", "w", "U", "p", "A", "r", "r", "o", "w", ";">>, <<"⇵">>>>,
      <<<<"D", "o", "w", "n", "B", "r", "e", "v", "e", ";">>, <<"785">>>>,
      <<<<"D", "o", "w", "n", "L", "e", "f", "t", "R", "i", "g", "h", "t", "V", "e", "c", "t", "o", "r", ";">>, <<"10576">>>>,
      <<<<"D", "o", "w", "n", "L", "e", "f", "t", "T", "e", "e", "V", "e", "c", "t", "o", "r", ";">>, <<"10590">>>>,
      <<<<"D", "o", "w", "n", "L", "e", "f", "t", "V", "e", "c", "t", "o", "r", ";">>, <<"↽">>>>,
      <<<<"D", "o", "w", "n", "L", "e", "f", "t", "V", "e", "c", "t", "o", "r", "B", "a", "r", ";">>, <<"10582">>>>,
      <<<<"D", "o", "w", "n", "R", "i", "g", "h", "t", "T", "e", "e", "V", "e", "c", "t", "o", "r", ";">>, <<"10591">>>>,
      <<<<"D", "o", "w", "n", "R", "i", "g", "h", "t", "V", "e", "c", "t", "o", "r", ";">>, <<"⇁">>>>,
      <<<<"D", "o", "w", "n", "R", "i", "g", "h", "t", "V", "e", "c", "t", "o", "r", "B", "a", "r", ";">>, <<"10583">>>>,
      <<<<"D", "o", "w", "n", "T", "e", "e", ";">>, <<"⊤">>>>,
      <<<<"D", "o", "w", "n", "T", "e", "e", "A", "r", "r", "o", "w", ";">>, <<"↧">>>>,
      <<<<"D", "o", "w", "n", "a", "r", "r", "o", "w", ";">>, <<"⇓">>>>,
      <<<<"D", "s", "c", "r", ";">>, <<"119967">>>>,
      <<<<"D", "s", "t", "r", "o", "k", ";">>, <<"272">>>>,
      <<<<"E", "N", "G", ";">>, <<"330">>>>, <<<<"E", "T", "H">>, <<"Ð">>>>,
      <<<<"E", "T", "H", ";">>, <<"Ð">>>>, <<<<"E", "a", "c", "u", "t", "e">>, <<"É">>>>,
      <<<<"E", "a", "c", "u", "t", "e", ";">>, <<"É">>>>,
      <<<<"E", "c", "a", "r", "o", "n", ";">>, <<"282">>>>,
      <<<<"E", "c", "i", "r", "c">>, <<"Ê">>>>, <<<<"E", "c", "i", "r", "c", ";">>, <<"Ê">>>>,
      <<<<"E", "c", "y", ";">>, <<"1069">>>>, <<<<"E", "d", "o", "t", ";">>, <<"278">>>>,
      <<<<"E", "f", "r", ";">>, <<"120072">>>>, <<<<"E", "g", "r", "a", "v", "e">>, <<"È">>>>,
      <<<<"E", "g", "r", "a", "v", "e", ";">>, <<"È">>>>,
      <<<<"E", "l", "e", "m", "e", "n", "t", ";">>, <<"8712">>>>,
      <<<<"E", "m", "a", "c", "r", ";">>, <<"274">>>>,
      <<<<"E", "m", "p", "t", "y", "S", "m", "a", "l", "l", "S", "q", "u", "a", "r", "e", ";">>, <<"◻">>>>,
      <<<<"E", "m", "p", "t", "y", "V", "e", "r", "y", "S", "m", "a", "l", "l", "S", "q", "u", "a", "r", "e", ";">>, <<"▫">>>>,
      <<<<"E", "o", "g", "o", "n", ";">>, <<"280">>>>,
      <<<<"E", "o", "p", "f", ";">>, <<"120124">>>>,
      <<<<"E", "p", "s", "i", "l", "o", "n", ";">>, <<"Ε">>>>,
      <<<<"E", "q", "u", "a", "l", ";">>, <<"10869">>>>,
      <<<<"E", "q", "u", "a", "l", "T", "i", "l", "d", "e", ";">>, <<"8770">>>>,
      <<<<"E", "q", "u", "i", "l", "i", "b", "r", "i", "u", "m", ";">>, <<"⇌">>>>,
      <<<<"E", "s", "c", "r", ";">>, <<"8496">>>>,
      <<<<"E", "s", "i", "m", ";">>, <<"10867">>>>, <<<<"E", "t", "a", ";">>, <<"Η">>>>,
      <<<<"E", "u", "m", "l">>, <<"Ë">>>>, <<<<"E", "u", "m", "l", ";">>, <<"Ë">>>>,
      <<<<"E", "x", "i", "s", "t", "s", ";">>, <<"8707">>>>,
      <<<<"E", "x", "p", "o", "n", "e", "n", "t", "i", "a", "l", "E", ";">>, <<"8519">>>>,
      <<<<"F", "c", "y", ";">>, <<"1060">>>>, <<<<"F", "f", "r", ";">>, <<"120073">>>>,
      <<<<"F", "i", "l", "l", "e", "d", "S", "m", "a", "l", "l", "S", "q", "u", "a", "r", "e", ";">>, <<"◼">>>>,
      <<<<"F", "i", "l", "l", "e", "d", "V", "e", "r", "y", "S", "m", "a", "l", "l", "S", "q", "u", "a", "r", "e", ";">>, <<"▪">>>>,
      <<<<"F", "o", "p", "f", ";">>, <<"120125">>>>,
      <<<<"F", "o", "r", "A", "l", "l", ";">>, <<"8704">>>>,
      <<<<"F", "o", "u", "r", "i", "e", "r", "t", "r", "f", ";">>, <<"8497">>>>,
      <<<<"F", "s", "c", "r", ";">>, <<"8497">>>>, <<<<"G", "J", "c", "y", ";">>, <<"1027">>>>,
      <<<<"G", "T">>, <<">">>>>, <<<<"G", "T", ";">>, <<">">>>>,
      <<<<"G", "a", "m", "m", "a", ";">>, <<"Γ">>>>,
      <<<<"G", "a", "m", "m", "a", "d", ";">>, <<"Ϝ">>>>,
      <<<<"G", "b", "r", "e", "v", "e", ";">>, <<"286">>>>,
      <<<<"G", "c", "e", "d", "i", "l", ";">>, <<"290">>>>,
      <<<<"G", "c", "i", "r", "c", ";">>, <<"284">>>>, <<<<"G", "c", "y", ";">>, <<"1043">>>>,
      <<<<"G", "d", "o", "t", ";">>, <<"288">>>>, <<<<"G", "f", "r", ";">>, <<"120074">>>>,
      <<<<"G", "g", ";">>, <<"⋙">>>>, <<<<"G", "o", "p", "f", ";">>, <<"120126">>>>,
      <<<<"G", "r", "e", "a", "t", "e", "r", "E", "q", "u", "a", "l", ";">>, <<"8805">>>>,
      <<<<"G", "r", "e", "a", "t", "e", "r", "E", "q", "u", "a", "l", "L", "e", "s", "s", ";">>, <<"⋛">>>>,
      <<<<"G", "r", "e", "a", "t", "e", "r", "F", "u", "l", "l", "E", "q", "u", "a", "l", ";">>, <<"8807">>>>,
      <<<<"G", "r", "e", "a", "t", "e", "r", "G", "r", "e", "a", "t", "e", "r", ";">>, <<"⪢">>>>,
      <<<<"G", "r", "e", "a", "t", "e", "r", "L", "e", "s", "s", ";">>, <<"8823">>>>,
      <<<<"G", "r", "e", "a", "t", "e", "r", "S", "l", "a", "n", "t", "E", "q", "u", "a", "l", ";">>, <<"10878">>>>,
      <<<<"G", "r", "e", "a", "t", "e", "r", "T", "i", "l", "d", "e", ";">>, <<"8819">>>>,
      <<<<"G", "s", "c", "r", ";">>, <<"119970">>>>, <<<<"G", "t", ";">>, <<"8811">>>>,
      <<<<"H", "A", "R", "D", "c", "y", ";">>, <<"1066">>>>,
      <<<<"H", "a", "c", "e", "k", ";">>, <<"ˇ">>>>, <<<<"H", "a", "t", ";">>, <<"^">>>>,
      <<<<"H", "c", "i", "r", "c", ";">>, <<"292">>>>, <<<<"H", "f", "r", ";">>, <<"8460">>>>,
      <<<<"H", "i", "l", "b", "e", "r", "t", "S", "p", "a", "c", "e", ";">>, <<"8459">>>>,
      <<<<"H", "o", "p", "f", ";">>, <<"8461">>>>,
      <<<<"H", "o", "r", "i", "z", "o", "n", "t", "a", "l", "L", "i", "n", "e", ";">>, <<"9472">>>>,
      <<<<"H", "s", "c", "r", ";">>, <<"8459">>>>,
      <<<<"H", "s", "t", "r", "o", "k", ";">>, <<"294">>>>,
      <<<<"H", "u", "m", "p", "D", "o", "w", "n", "H", "u", "m", "p", ";">>, <<"8782">>>>,
      <<<<"H", "u", "m", "p", "E", "q", "u", "a", "l", ";">>, <<"8783">>>>,
      <<<<"I", "E", "c", "y", ";">>, <<"1045">>>>,
      <<<<"I", "J", "l", "i", "g", ";">>, <<"306">>>>,
      <<<<"I", "O", "c", "y", ";">>, <<"1025">>>>,
      <<<<"I", "a", "c", "u", "t", "e">>, <<"Í">>>>,
      <<<<"I", "a", "c", "u", "t", "e", ";">>, <<"Í">>>>,
      <<<<"I", "c", "i", "r", "c">>, <<"Î">>>>, <<<<"I", "c", "i", "r", "c", ";">>, <<"Î">>>>,
      <<<<"I", "c", "y", ";">>, <<"1048">>>>, <<<<"I", "d", "o", "t", ";">>, <<"304">>>>,
      <<<<"I", "f", "r", ";">>, <<"8465">>>>, <<<<"I", "g", "r", "a", "v", "e">>, <<"Ì">>>>,
      <<<<"I", "g", "r", "a", "v", "e", ";">>, <<"Ì">>>>, <<<<"I", "m", ";">>, <<"8465">>>>,
      <<<<"I", "m", "a", "c", "r", ";">>, <<"298">>>>,
      <<<<"I", "m", "a", "g", "i", "n", "a", "r", "y", "I", ";">>, <<"8520">>>>,
      <<<<"I", "m", "p", "l", "i", "e", "s", ";">>, <<"⇒">>>>,
      <<<<"I", "n", "t", ";">>, <<"8748">>>>,
      <<<<"I", "n", "t", "e", "g", "r", "a", "l", ";">>, <<"8747">>>>,
      <<<<"I", "n", "t", "e", "r", "s", "e", "c", "t", "i", "o", "n", ";">>, <<"⋂">>>>,
      <<<<"I", "n", "v", "i", "s", "i", "b", "l", "e", "C", "o", "m", "m", "a", ";">>, <<"8291">>>>,
      <<<<"I", "n", "v", "i", "s", "i", "b", "l", "e", "T", "i", "m", "e", "s", ";">>, <<"8290">>>>,
      <<<<"I", "o", "g", "o", "n", ";">>, <<"302">>>>,
      <<<<"I", "o", "p", "f", ";">>, <<"120128">>>>, <<<<"I", "o", "t", "a", ";">>, <<"Ι">>>>,
      <<<<"I", "s", "c", "r", ";">>, <<"8464">>>>,
      <<<<"I", "t", "i", "l", "d", "e", ";">>, <<"296">>>>,
      <<<<"I", "u", "k", "c", "y", ";">>, <<"1030">>>>, <<<<"I", "u", "m", "l">>, <<"Ï">>>>,
      <<<<"I", "u", "m", "l", ";">>, <<"Ï">>>>,
      <<<<"J", "c", "i", "r", "c", ";">>, <<"308">>>>, <<<<"J", "c", "y", ";">>, <<"1049">>>>,
      <<<<"J", "f", "r", ";">>, <<"120077">>>>, <<<<"J", "o", "p", "f", ";">>, <<"120129">>>>,
      <<<<"J", "s", "c", "r", ";">>, <<"119973">>>>,
      <<<<"J", "s", "e", "r", "c", "y", ";">>, <<"1032">>>>,
      <<<<"J", "u", "k", "c", "y", ";">>, <<"1028">>>>,
      <<<<"K", "H", "c", "y", ";">>, <<"1061">>>>, <<<<"K", "J", "c", "y", ";">>, <<"1036">>>>,
      <<<<"K", "a", "p", "p", "a", ";">>, <<"Κ">>>>,
      <<<<"K", "c", "e", "d", "i", "l", ";">>, <<"310">>>>,
      <<<<"K", "c", "y", ";">>, <<"1050">>>>, <<<<"K", "f", "r", ";">>, <<"120078">>>>,
      <<<<"K", "o", "p", "f", ";">>, <<"120130">>>>,
      <<<<"K", "s", "c", "r", ";">>, <<"119974">>>>,
      <<<<"L", "J", "c", "y", ";">>, <<"1033">>>>, <<<<"L", "T">>, <<"<">>>>,
      <<<<"L", "T", ";">>, <<"<">>>>, <<<<"L", "a", "c", "u", "t", "e", ";">>, <<"313">>>>,
      <<<<"L", "a", "m", "b", "d", "a", ";">>, <<"Λ">>>>,
      <<<<"L", "a", "n", "g", ";">>, <<"⟪">>>>,
      <<<<"L", "a", "p", "l", "a", "c", "e", "t", "r", "f", ";">>, <<"8466">>>>,
      <<<<"L", "a", "r", "r", ";">>, <<"↞">>>>,
      <<<<"L", "c", "a", "r", "o", "n", ";">>, <<"317">>>>,
      <<<<"L", "c", "e", "d", "i", "l", ";">>, <<"315">>>>,
      <<<<"L", "c", "y", ";">>, <<"1051">>>>,
      <<<<"L", "e", "f", "t", "A", "n", "g", "l", "e", "B", "r", "a", "c", "k", "e", "t", ";">>, <<"⟨">>>>,
      <<<<"L", "e", "f", "t", "A", "r", "r", "o", "w", ";">>, <<"←">>>>,
      <<<<"L", "e", "f", "t", "A", "r", "r", "o", "w", "B", "a", "r", ";">>, <<"⇤">>>>,
      <<<<"L", "e", "f", "t", "A", "r", "r", "o", "w", "R", "i", "g", "h", "t", "A", "r", "r", "o", "w", ";">>, <<"⇆">>>>,
      <<<<"L", "e", "f", "t", "C", "e", "i", "l", "i", "n", "g", ";">>, <<"8968">>>>,
      <<<<"L", "e", "f", "t", "D", "o", "u", "b", "l", "e", "B", "r", "a", "c", "k", "e", "t", ";">>, <<"⟦">>>>,
      <<<<"L", "e", "f", "t", "D", "o", "w", "n", "T", "e", "e", "V", "e", "c", "t", "o", "r", ";">>, <<"10593">>>>,
      <<<<"L", "e", "f", "t", "D", "o", "w", "n", "V", "e", "c", "t", "o", "r", ";">>, <<"⇃">>>>,
      <<<<"L", "e", "f", "t", "D", "o", "w", "n", "V", "e", "c", "t", "o", "r", "B", "a", "r", ";">>, <<"10585">>>>,
      <<<<"L", "e", "f", "t", "F", "l", "o", "o", "r", ";">>, <<"8970">>>>,
      <<<<"L", "e", "f", "t", "R", "i", "g", "h", "t", "A", "r", "r", "o", "w", ";">>, <<"↔">>>>,
      <<<<"L", "e", "f", "t", "R", "i", "g", "h", "t", "V", "e", "c", "t", "o", "r", ";">>, <<"10574">>>>,
      <<<<"L", "e", "f", "t", "T", "e", "e", ";">>, <<"⊣">>>>,
      <<<<"L", "e", "f", "t", "T", "e", "e", "A", "r", "r", "o", "w", ";">>, <<"↤">>>>,
      <<<<"L", "e", "f", "t", "T", "e", "e", "V", "e", "c", "t", "o", "r", ";">>, <<"10586">>>>,
      <<<<"L", "e", "f", "t", "T", "r", "i", "a", "n", "g", "l", "e", ";">>, <<"⊲">>>>,
      <<<<"L", "e", "f", "t", "T", "r", "i", "a", "n", "g", "l", "e", "B", "a", "r", ";">>, <<"⧏">>>>,
      <<<<"L", "e", "f", "t", "T", "r", "i", "a", "n", "g", "l", "e", "E", "q", "u", "a", "l", ";">>, <<"⊴">>>>,
      <<<<"L", "e", "f", "t", "U", "p", "D", "o", "w", "n", "V", "e", "c", "t", "o", "r", ";">>, <<"10577">>>>,
      <<<<"L", "e", "f", "t", "U", "p", "T", "e", "e", "V", "e", "c", "t", "o", "r", ";">>, <<"10592">>>>,
      <<<<"L", "e", "f", "t", "U", "p", "V", "e", "c", "t", "o", "r", ";">>, <<"↿">>>>,
      <<<<"L", "e", "f", "t", "U", "p", "V", "e", "c", "t", "o", "r", "B", "a", "r", ";">>, <<"10584">>>>,
      <<<<"L", "e", "f", "t", "V", "e", "c", "t", "o", "r", ";">>, <<"↼">>>>,
      <<<<"L", "e", "f", "t", "V", "e", "c", "t", "o", "r", "B", "a", "r", ";">>, <<"10578">>>>,
      <<<<"L", "e", "f", "t", "a", "r", "r", "o", "w", ";">>, <<"⇐">>>>,
      <<<<"L", "e", "f", "t", "r", "i", "g", "h", "t", "a", "r", "r", "o", "w", ";">>, <<"⇔">>>>,
      <<<<"L", "e", "s", "s", "E", "q", "u", "a", "l", "G", "r", "e", "a", "t", "e", "r", ";">>, <<"⋚">>>>,
      <<<<"L", "e", "s", "s", "F", "u", "l", "l", "E", "q", "u", "a", "l", ";">>, <<"8806">>>>,
      <<<<"L", "e", "s", "s", "G", "r", "e", "a", "t", "e", "r", ";">>, <<"8822">>>>,
      <<<<"L", "e", "s", "s", "L", "e", "s", "s", ";">>, <<"⪡">>>>,
      <<<<"L", "e", "s", "s", "S", "l", "a", "n", "t", "E", "q", "u", "a", "l", ";">>, <<"10877">>>>,
      <<<<"L", "e", "s", "s", "T", "i", "l", "d", "e", ";">>, <<"8818">>>>,
      <<<<"L", "f", "r", ";">>, <<"120079">>>>, <<<<"L", "l", ";">>, <<"⋘">>>>,
      <<<<"L", "l", "e", "f", "t", "a", "r", "r", "o", "w", ";">>, <<"⇚">>>>,
      <<<<"L", "m", "i", "d", "o", "t", ";">>, <<"319">>>>,
      <<<<"L", "o", "n", "g", "L", "e", "f", "t", "A", "r", "r", "o", "w", ";">>, <<"⟵">>>>,
      <<<<"L", "o", "n", "g", "L", "e", "f", "t", "R", "i", "g", "h", "t", "A", "r", "r", "o", "w", ";">>, <<"⟷">>>>,
      <<<<"L", "o", "n", "g", "R", "i", "g", "h", "t", "A", "r", "r", "o", "w", ";">>, <<"⟶">>>>,
      <<<<"L", "o", "n", "g", "l", "e", "f", "t", "a", "r", "r", "o", "w", ";">>, <<"⟸">>>>,
      <<<<"L", "o", "n", "g", "l", "e", "f", "t", "r", "i", "g", "h", "t", "a", "r", "r", "o", "w", ";">>, <<"⟺">>>>,
      <<<<"L", "o", "n", "g", "r", "i", "g", "h", "t", "a", "r", "r", "o", "w", ";">>, <<"⟹">>>>,
      <<<<"L", "o", "p", "f", ";">>, <<"120131">>>>,
      <<<<"L", "o", "w", "e", "r", "L", "e", "f", "t", "A", "r", "r", "o", "w", ";">>, <<"↙">>>>,
      <<<<"L", "o", "w", "e", "r", "R", "i", "g", "h", "t", "A", "r", "r", "o", "w", ";">>, <<"↘">>>>,
      <<<<"L", "s", "c", "r", ";">>, <<"8466">>>>, <<<<"L", "s", "h", ";">>, <<"↰">>>>,
      <<<<"L", "s", "t", "r", "o", "k", ";">>, <<"321">>>>, <<<<"L", "t", ";">>, <<"8810">>>>,
      <<<<"M", "a", "p", ";">>, <<"10501">>>>, <<<<"M", "c", "y", ";">>, <<"1052">>>>,
      <<<<"M", "e", "d", "i", "u", "m", "S", "p", "a", "c", "e", ";">>, <<"8287">>>>,
      <<<<"M", "e", "l", "l", "i", "n", "t", "r", "f", ";">>, <<"8499">>>>,
      <<<<"M", "f", "r", ";">>, <<"120080">>>>,
      <<<<"M", "i", "n", "u", "s", "P", "l", "u", "s", ";">>, <<"8723">>>>,
      <<<<"M", "o", "p", "f", ";">>, <<"120132">>>>,
      <<<<"M", "s", "c", "r", ";">>, <<"8499">>>>, <<<<"M", "u", ";">>, <<"Μ">>>>,
      <<<<"N", "J", "c", "y", ";">>, <<"1034">>>>,
      <<<<"N", "a", "c", "u", "t", "e", ";">>, <<"323">>>>,
      <<<<"N", "c", "a", "r", "o", "n", ";">>, <<"327">>>>,
      <<<<"N", "c", "e", "d", "i", "l", ";">>, <<"325">>>>,
      <<<<"N", "c", "y", ";">>, <<"1053">>>>,
      <<<<"N", "e", "g", "a", "t", "i", "v", "e", "M", "e", "d", "i", "u", "m", "S", "p", "a", "c", "e", ";">>, <<"8203">>>>,
      <<<<"N", "e", "g", "a", "t", "i", "v", "e", "T", "h", "i", "c", "k", "S", "p", "a", "c", "e", ";">>, <<"8203">>>>,
      <<<<"N", "e", "g", "a", "t", "i", "v", "e", "T", "h", "i", "n", "S", "p", "a", "c", "e", ";">>, <<"8203">>>>,
      <<<<"N", "e", "g", "a", "t", "i", "v", "e", "V", "e", "r", "y", "T", "h", "i", "n", "S", "p", "a", "c", "e", ";">>, <<"8203">>>>,
      <<<<"N", "e", "s", "t", "e", "d", "G", "r", "e", "a", "t", "e", "r", "G", "r", "e", "a", "t", "e", "r", ";">>, <<"8811">>>>,
      <<<<"N", "e", "s", "t", "e", "d", "L", "e", "s", "s", "L", "e", "s", "s", ";">>, <<"8810">>>>,
      <<<<"N", "e", "w", "L", "i", "n", "e", ";">>, <<"\n">>>>,
      <<<<"N", "f", "r", ";">>, <<"120081">>>>,
      <<<<"N", "o", "B", "r", "e", "a", "k", ";">>, <<"8288">>>>,
      <<<<"N", "o", "n", "B", "r", "e", "a", "k", "i", "n", "g", "S", "p", "a", "c", "e", ";">>, <<" ">>>>,
      <<<<"N", "o", "p", "f", ";">>, <<"8469">>>>, <<<<"N", "o", "t", ";">>, <<"⫬">>>>,
      <<<<"N", "o", "t", "C", "o", "n", "g", "r", "u", "e", "n", "t", ";">>, <<"8802">>>>,
      <<<<"N", "o", "t", "C", "u", "p", "C", "a", "p", ";">>, <<"8813">>>>,
      <<<<"N", "o", "t", "D", "o", "u", "b", "l", "e", "V", "e", "r", "t", "i", "c", "a", "l", "B", "a", "r", ";">>, <<"8742">>>>,
      <<<<"N", "o", "t", "E", "l", "e", "m", "e", "n", "t", ";">>, <<"8713">>>>,
      <<<<"N", "o", "t", "E", "q", "u", "a", "l", ";">>, <<"8800">>>>,
      <<<<"N", "o", "t", "E", "q", "u", "a", "l", "T", "i", "l", "d", "e", ";">>, <<"8770", "824">>>>,
      <<<<"N", "o", "t", "E", "x", "i", "s", "t", "s", ";">>, <<"8708">>>>,
      <<<<"N", "o", "t", "G", "r", "e", "a", "t", "e", "r", ";">>, <<"8815">>>>,
      <<<<"N", "o", "t", "G", "r", "e", "a", "t", "e", "r", "E", "q", "u", "a", "l", ";">>, <<"8817">>>>,
      <<<<"N", "o", "t", "G", "r", "e", "a", "t", "e", "r", "F", "u", "l", "l", "E", "q", "u", "a", "l", ";">>, <<"8807", "824">>>>,
      <<<<"N", "o", "t", "G", "r", "e", "a", "t", "e", "r", "G", "r", "e", "a", "t", "e", "r", ";">>, <<"8811", "824">>>>,
      <<<<"N", "o", "t", "G", "r", "e", "a", "t", "e", "r", "L", "e", "s", "s", ";">>, <<"8825">>>>,
      <<<<"N", "o", "t", "G", "r", "e", "a", "t", "e", "r", "S", "l", "a", "n", "t", "E", "q", "u", "a", "l", ";">>, <<"10878", "824">>>>,
      <<<<"N", "o", "t", "G", "r", "e", "a", "t", "e", "r", "T", "i", "l", "d", "e", ";">>, <<"8821">>>>,
      <<<<"N", "o", "t", "H", "u", "m", "p", "D", "o", "w", "n", "H", "u", "m", "p", ";">>, <<"8782", "824">>>>,
      <<<<"N", "o", "t", "H", "u", "m", "p", "E", "q", "u", "a", "l", ";">>, <<"8783", "824">>>>,
      <<<<"N", "o", "t", "L", "e", "f", "t", "T", "r", "i", "a", "n", "g", "l", "e", ";">>, <<"⋪">>>>,
      <<<<"N", "o", "t", "L", "e", "f", "t", "T", "r", "i", "a", "n", "g", "l", "e", "B", "a", "r", ";">>, <<"⧏", "824">>>>,
      <<<<"N", "o", "t", "L", "e", "f", "t", "T", "r", "i", "a", "n", "g", "l", "e", "E", "q", "u", "a", "l", ";">>, <<"⋬">>>>,
      <<<<"N", "o", "t", "L", "e", "s", "s", ";">>, <<"8814">>>>,
      <<<<"N", "o", "t", "L", "e", "s", "s", "E", "q", "u", "a", "l", ";">>, <<"8816">>>>,
      <<<<"N", "o", "t", "L", "e", "s", "s", "G", "r", "e", "a", "t", "e", "r", ";">>, <<"8824">>>>,
      <<<<"N", "o", "t", "L", "e", "s", "s", "L", "e", "s", "s", ";">>, <<"8810", "824">>>>,
      <<<<"N", "o", "t", "L", "e", "s", "s", "S", "l", "a", "n", "t", "E", "q", "u", "a", "l", ";">>, <<"10877", "824">>>>,
      <<<<"N", "o", "t", "L", "e", "s", "s", "T", "i", "l", "d", "e", ";">>, <<"8820">>>>,
      <<<<"N", "o", "t", "N", "e", "s", "t", "e", "d", "G", "r", "e", "a", "t", "e", "r", "G", "r", "e", "a", "t", "e", "r", ";">>, <<"⪢", "824">>>>,
      <<<<"N", "o", "t", "N", "e", "s", "t", "e", "d", "L", "e", "s", "s", "L", "e", "s", "s", ";">>, <<"⪡", "824">>>>,
      <<<<"N", "o", "t", "P", "r", "e", "c", "e", "d", "e", "s", ";">>, <<"⊀">>>>,
      <<<<"N", "o", "t", "P", "r", "e", "c", "e", "d", "e", "s", "E", "q", "u", "a", "l", ";">>, <<"⪯", "824">>>>,
      <<<<"N", "o", "t", "P", "r", "e", "c", "e", "d", "e", "s", "S", "l", "a", "n", "t", "E", "q", "u", "a", "l", ";">>, <<"⋠">>>>,
      <<<<"N", "o", "t", "R", "e", "v", "e", "r", "s", "e", "E", "l", "e", "m", "e", "n", "t", ";">>, <<"8716">>>>,
      <<<<"N", "o", "t", "R", "i", "g", "h", "t", "T", "r", "i", "a", "n", "g", "l", "e", ";">>, <<"⋫">>>>,
      <<<<"N", "o", "t", "R", "i", "g", "h", "t", "T", "r", "i", "a", "n", "g", "l", "e", "B", "a", "r", ";">>, <<"⧐", "824">>>>,
      <<<<"N", "o", "t", "R", "i", "g", "h", "t", "T", "r", "i", "a", "n", "g", "l", "e", "E", "q", "u", "a", "l", ";">>, <<"⋭">>>>,
      <<<<"N", "o", "t", "S", "q", "u", "a", "r", "e", "S", "u", "b", "s", "e", "t", ";">>, <<"⊏", "824">>>>,
      <<<<"N", "o", "t", "S", "q", "u", "a", "r", "e", "S", "u", "b", "s", "e", "t", "E", "q", "u", "a", "l", ";">>, <<"⋢">>>>,
      <<<<"N", "o", "t", "S", "q", "u", "a", "r", "e", "S", "u", "p", "e", "r", "s", "e", "t", ";">>, <<"⊐", "824">>>>,
      <<<<"N", "o", "t", "S", "q", "u", "a", "r", "e", "S", "u", "p", "e", "r", "s", "e", "t", "E", "q", "u", "a", "l", ";">>, <<"⋣">>>>,
      <<<<"N", "o", "t", "S", "u", "b", "s", "e", "t", ";">>, <<"⊂", "⃒">>>>,
      <<<<"N", "o", "t", "S", "u", "b", "s", "e", "t", "E", "q", "u", "a", "l", ";">>, <<"⊈">>>>,
      <<<<"N", "o", "t", "S", "u", "c", "c", "e", "e", "d", "s", ";">>, <<"⊁">>>>,
      <<<<"N", "o", "t", "S", "u", "c", "c", "e", "e", "d", "s", "E", "q", "u", "a", "l", ";">>, <<"⪰", "824">>>>,
      <<<<"N", "o", "t", "S", "u", "c", "c", "e", "e", "d", "s", "S", "l", "a", "n", "t", "E", "q", "u", "a", "l", ";">>, <<"⋡">>>>,
      <<<<"N", "o", "t", "S", "u", "c", "c", "e", "e", "d", "s", "T", "i", "l", "d", "e", ";">>, <<"8831", "824">>>>,
      <<<<"N", "o", "t", "S", "u", "p", "e", "r", "s", "e", "t", ";">>, <<"⊃", "⃒">>>>,
      <<<<"N", "o", "t", "S", "u", "p", "e", "r", "s", "e", "t", "E", "q", "u", "a", "l", ";">>, <<"⊉">>>>,
      <<<<"N", "o", "t", "T", "i", "l", "d", "e", ";">>, <<"8769">>>>,
      <<<<"N", "o", "t", "T", "i", "l", "d", "e", "E", "q", "u", "a", "l", ";">>, <<"8772">>>>,
      <<<<"N", "o", "t", "T", "i", "l", "d", "e", "F", "u", "l", "l", "E", "q", "u", "a", "l", ";">>, <<"8775">>>>,
      <<<<"N", "o", "t", "T", "i", "l", "d", "e", "T", "i", "l", "d", "e", ";">>, <<"8777">>>>,
      <<<<"N", "o", "t", "V", "e", "r", "t", "i", "c", "a", "l", "B", "a", "r", ";">>, <<"8740">>>>,
      <<<<"N", "s", "c", "r", ";">>, <<"119977">>>>,
      <<<<"N", "t", "i", "l", "d", "e">>, <<"Ñ">>>>,
      <<<<"N", "t", "i", "l", "d", "e", ";">>, <<"Ñ">>>>, <<<<"N", "u", ";">>, <<"Ν">>>>,
      <<<<"O", "E", "l", "i", "g", ";">>, <<"338">>>>,
      <<<<"O", "a", "c", "u", "t", "e">>, <<"Ó">>>>,
      <<<<"O", "a", "c", "u", "t", "e", ";">>, <<"Ó">>>>,
      <<<<"O", "c", "i", "r", "c">>, <<"Ô">>>>, <<<<"O", "c", "i", "r", "c", ";">>, <<"Ô">>>>,
      <<<<"O", "c", "y", ";">>, <<"1054">>>>,
      <<<<"O", "d", "b", "l", "a", "c", ";">>, <<"336">>>>,
      <<<<"O", "f", "r", ";">>, <<"120082">>>>, <<<<"O", "g", "r", "a", "v", "e">>, <<"Ò">>>>,
      <<<<"O", "g", "r", "a", "v", "e", ";">>, <<"Ò">>>>,
      <<<<"O", "m", "a", "c", "r", ";">>, <<"332">>>>,
      <<<<"O", "m", "e", "g", "a", ";">>, <<"Ω">>>>,
      <<<<"O", "m", "i", "c", "r", "o", "n", ";">>, <<"Ο">>>>,
      <<<<"O", "o", "p", "f", ";">>, <<"120134">>>>,
      <<<<"O", "p", "e", "n", "C", "u", "r", "l", "y", "D", "o", "u", "b", "l", "e", "Q", "u", "o", "t", "e", ";">>, <<"8220">>>>,
      <<<<"O", "p", "e", "n", "C", "u", "r", "l", "y", "Q", "u", "o", "t", "e", ";">>, <<"8216">>>>,
      <<<<"O", "r", ";">>, <<"10836">>>>, <<<<"O", "s", "c", "r", ";">>, <<"119978">>>>,
      <<<<"O", "s", "l", "a", "s", "h">>, <<"Ø">>>>,
      <<<<"O", "s", "l", "a", "s", "h", ";">>, <<"Ø">>>>,
      <<<<"O", "t", "i", "l", "d", "e">>, <<"Õ">>>>,
      <<<<"O", "t", "i", "l", "d", "e", ";">>, <<"Õ">>>>,
      <<<<"O", "t", "i", "m", "e", "s", ";">>, <<"10807">>>>,
      <<<<"O", "u", "m", "l">>, <<"Ö">>>>, <<<<"O", "u", "m", "l", ";">>, <<"Ö">>>>,
      <<<<"O", "v", "e", "r", "B", "a", "r", ";">>, <<"8254">>>>,
      <<<<"O", "v", "e", "r", "B", "r", "a", "c", "e", ";">>, <<"⏞">>>>,
      <<<<"O", "v", "e", "r", "B", "r", "a", "c", "k", "e", "t", ";">>, <<"⎴">>>>,
      <<<<"O", "v", "e", "r", "P", "a", "r", "e", "n", "t", "h", "e", "s", "i", "s", ";">>, <<"⏜">>>>,
      <<<<"P", "a", "r", "t", "i", "a", "l", "D", ";">>, <<"8706">>>>,
      <<<<"P", "c", "y", ";">>, <<"1055">>>>, <<<<"P", "f", "r", ";">>, <<"120083">>>>,
      <<<<"P", "h", "i", ";">>, <<"Φ">>>>, <<<<"P", "i", ";">>, <<"Π">>>>,
      <<<<"P", "l", "u", "s", "M", "i", "n", "u", "s", ";">>, <<"±">>>>,
      <<<<"P", "o", "i", "n", "c", "a", "r", "e", "p", "l", "a", "n", "e", ";">>, <<"8460">>>>,
      <<<<"P", "o", "p", "f", ";">>, <<"8473">>>>, <<<<"P", "r", ";">>, <<"⪻">>>>,
      <<<<"P", "r", "e", "c", "e", "d", "e", "s", ";">>, <<"8826">>>>,
      <<<<"P", "r", "e", "c", "e", "d", "e", "s", "E", "q", "u", "a", "l", ";">>, <<"⪯">>>>,
      <<<<"P", "r", "e", "c", "e", "d", "e", "s", "S", "l", "a", "n", "t", "E", "q", "u", "a", "l", ";">>, <<"8828">>>>,
      <<<<"P", "r", "e", "c", "e", "d", "e", "s", "T", "i", "l", "d", "e", ";">>, <<"8830">>>>,
      <<<<"P", "r", "i", "m", "e", ";">>, <<"8243">>>>,
      <<<<"P", "r", "o", "d", "u", "c", "t", ";">>, <<"8719">>>>,
      <<<<"P", "r", "o", "p", "o", "r", "t", "i", "o", "n", ";">>, <<"8759">>>>,
      <<<<"P", "r", "o", "p", "o", "r", "t", "i", "o", "n", "a", "l", ";">>, <<"8733">>>>,
      <<<<"P", "s", "c", "r", ";">>, <<"119979">>>>, <<<<"P", "s", "i", ";">>, <<"Ψ">>>>,
      <<<<"Q", "U", "O", "T">>, <<"\"">>>>, <<<<"Q", "U", "O", "T", ";">>, <<"\"">>>>,
      <<<<"Q", "f", "r", ";">>, <<"120084">>>>, <<<<"Q", "o", "p", "f", ";">>, <<"8474">>>>,
      <<<<"Q", "s", "c", "r", ";">>, <<"119980">>>>,
      <<<<"R", "B", "a", "r", "r", ";">>, <<"10512">>>>, <<<<"R", "E", "G">>, <<"®">>>>,
      <<<<"R", "E", "G", ";">>, <<"®">>>>,
      <<<<"R", "a", "c", "u", "t", "e", ";">>, <<"340">>>>,
      <<<<"R", "a", "n", "g", ";">>, <<"⟫">>>>, <<<<"R", "a", "r", "r", ";">>, <<"↠">>>>,
      <<<<"R", "a", "r", "r", "t", "l", ";">>, <<"10518">>>>,
      <<<<"R", "c", "a", "r", "o", "n", ";">>, <<"344">>>>,
      <<<<"R", "c", "e", "d", "i", "l", ";">>, <<"342">>>>,
      <<<<"R", "c", "y", ";">>, <<"1056">>>>, <<<<"R", "e", ";">>, <<"8476">>>>,
      <<<<"R", "e", "v", "e", "r", "s", "e", "E", "l", "e", "m", "e", "n", "t", ";">>, <<"8715">>>>,
      <<<<"R", "e", "v", "e", "r", "s", "e", "E", "q", "u", "i", "l", "i", "b", "r", "i", "u", "m", ";">>, <<"⇋">>>>,
      <<<<"R", "e", "v", "e", "r", "s", "e", "U", "p", "E", "q", "u", "i", "l", "i", "b", "r", "i", "u", "m", ";">>, <<"10607">>>>,
      <<<<"R", "f", "r", ";">>, <<"8476">>>>, <<<<"R", "h", "o", ";">>, <<"Ρ">>>>,
      <<<<"R", "i", "g", "h", "t", "A", "n", "g", "l", "e", "B", "r", "a", "c", "k", "e", "t", ";">>, <<"⟩">>>>,
      <<<<"R", "i", "g", "h", "t", "A", "r", "r", "o", "w", ";">>, <<"→">>>>,
      <<<<"R", "i", "g", "h", "t", "A", "r", "r", "o", "w", "B", "a", "r", ";">>, <<"⇥">>>>,
      <<<<"R", "i", "g", "h", "t", "A", "r", "r", "o", "w", "L", "e", "f", "t", "A", "r", "r", "o", "w", ";">>, <<"⇄">>>>,
      <<<<"R", "i", "g", "h", "t", "C", "e", "i", "l", "i", "n", "g", ";">>, <<"8969">>>>,
      <<<<"R", "i", "g", "h", "t", "D", "o", "u", "b", "l", "e", "B", "r", "a", "c", "k", "e", "t", ";">>, <<"⟧">>>>,
      <<<<"R", "i", "g", "h", "t", "D", "o", "w", "n", "T", "e", "e", "V", "e", "c", "t", "o", "r", ";">>, <<"10589">>>>,
      <<<<"R", "i", "g", "h", "t", "D", "o", "w", "n", "V", "e", "c", "t", "o", "r", ";">>, <<"⇂">>>>,
      <<<<"R", "i", "g", "h", "t", "D", "o", "w", "n", "V", "e", "c", "t", "o", "r", "B", "a", "r", ";">>, <<"10581">>>>,
      <<<<"R", "i", "g", "h", "t", "F", "l", "o", "o", "r", ";">>, <<"8971">>>>,
      <<<<"R", "i", "g", "h", "t", "T", "e", "e", ";">>, <<"⊢">>>>,
      <<<<"R", "i", "g", "h", "t", "T", "e", "e", "A", "r", "r", "o", "w", ";">>, <<"↦">>>>,
      <<<<"R", "i", "g", "h", "t", "T", "e", "e", "V", "e", "c", "t", "o", "r", ";">>, <<"10587">>>>,
      <<<<"R", "i", "g", "h", "t", "T", "r", "i", "a", "n", "g", "l", "e", ";">>, <<"⊳">>>>,
      <<<<"R", "i", "g", "h", "t", "T", "r", "i", "a", "n", "g", "l", "e", "B", "a", "r", ";">>, <<"⧐">>>>,
      <<<<"R", "i", "g", "h", "t", "T", "r", "i", "a", "n", "g", "l", "e", "E", "q", "u", "a", "l", ";">>, <<"⊵">>>>,
      <<<<"R", "i", "g", "h", "t", "U", "p", "D", "o", "w", "n", "V", "e", "c", "t", "o", "r", ";">>, <<"10575">>>>,
      <<<<"R", "i", "g", "h", "t", "U", "p", "T", "e", "e", "V", "e", "c", "t", "o", "r", ";">>, <<"10588">>>>,
      <<<<"R", "i", "g", "h", "t", "U", "p", "V", "e", "c", "t", "o", "r", ";">>, <<"↾">>>>,
      <<<<"R", "i", "g", "h", "t", "U", "p", "V", "e", "c", "t", "o", "r", "B", "a", "r", ";">>, <<"10580">>>>,
      <<<<"R", "i", "g", "h", "t", "V", "e", "c", "t", "o", "r", ";">>, <<"⇀">>>>,
      <<<<"R", "i", "g", "h", "t", "V", "e", "c", "t", "o", "r", "B", "a", "r", ";">>, <<"10579">>>>,
      <<<<"R", "i", "g", "h", "t", "a", "r", "r", "o", "w", ";">>, <<"⇒">>>>,
      <<<<"R", "o", "p", "f", ";">>, <<"8477">>>>,
      <<<<"R", "o", "u", "n", "d", "I", "m", "p", "l", "i", "e", "s", ";">>, <<"10608">>>>,
      <<<<"R", "r", "i", "g", "h", "t", "a", "r", "r", "o", "w", ";">>, <<"⇛">>>>,
      <<<<"R", "s", "c", "r", ";">>, <<"8475">>>>, <<<<"R", "s", "h", ";">>, <<"↱">>>>,
      <<<<"R", "u", "l", "e", "D", "e", "l", "a", "y", "e", "d", ";">>, <<"⧴">>>>,
      <<<<"S", "H", "C", "H", "c", "y", ";">>, <<"1065">>>>,
      <<<<"S", "H", "c", "y", ";">>, <<"1064">>>>,
      <<<<"S", "O", "F", "T", "c", "y", ";">>, <<"1068">>>>,
      <<<<"S", "a", "c", "u", "t", "e", ";">>, <<"346">>>>, <<<<"S", "c", ";">>, <<"⪼">>>>,
      <<<<"S", "c", "a", "r", "o", "n", ";">>, <<"352">>>>,
      <<<<"S", "c", "e", "d", "i", "l", ";">>, <<"350">>>>,
      <<<<"S", "c", "i", "r", "c", ";">>, <<"348">>>>, <<<<"S", "c", "y", ";">>, <<"1057">>>>,
      <<<<"S", "f", "r", ";">>, <<"120086">>>>,
      <<<<"S", "h", "o", "r", "t", "D", "o", "w", "n", "A", "r", "r", "o", "w", ";">>, <<"↓">>>>,
      <<<<"S", "h", "o", "r", "t", "L", "e", "f", "t", "A", "r", "r", "o", "w", ";">>, <<"←">>>>,
      <<<<"S", "h", "o", "r", "t", "R", "i", "g", "h", "t", "A", "r", "r", "o", "w", ";">>, <<"→">>>>,
      <<<<"S", "h", "o", "r", "t", "U", "p", "A", "r", "r", "o", "w", ";">>, <<"↑">>>>,
      <<<<"S", "i", "g", "m", "a", ";">>, <<"Σ">>>>,
      <<<<"S", "m", "a", "l", "l", "C", "i", "r", "c", "l", "e", ";">>, <<"8728">>>>,
      <<<<"S", "o", "p", "f", ";">>, <<"120138">>>>,
      <<<<"S", "q", "r", "t", ";">>, <<"8730">>>>,
      <<<<"S", "q", "u", "a", "r", "e", ";">>, <<"□">>>>,
      <<<<"S", "q", "u", "a", "r", "e", "I", "n", "t", "e", "r", "s", "e", "c", "t", "i", "o", "n", ";">>, <<"⊓">>>>,
      <<<<"S", "q", "u", "a", "r", "e", "S", "u", "b", "s", "e", "t", ";">>, <<"⊏">>>>,
      <<<<"S", "q", "u", "a", "r", "e", "S", "u", "b", "s", "e", "t", "E", "q", "u", "a", "l", ";">>, <<"⊑">>>>,
      <<<<"S", "q", "u", "a", "r", "e", "S", "u", "p", "e", "r", "s", "e", "t", ";">>, <<"⊐">>>>,
      <<<<"S", "q", "u", "a", "r", "e", "S", "u", "p", "e", "r", "s", "e", "t", "E", "q", "u", "a", "l", ";">>, <<"⊒">>>>,
      <<<<"S", "q", "u", "a", "r", "e", "U", "n", "i", "o", "n", ";">>, <<"⊔">>>>,
      <<<<"S", "s", "c", "r", ";">>, <<"119982">>>>, <<<<"S", "t", "a", "r", ";">>, <<"⋆">>>>,
      <<<<"S", "u", "b", ";">>, <<"⋐">>>>, <<<<"S", "u", "b", "s", "e", "t", ";">>, <<"⋐">>>>,
      <<<<"S", "u", "b", "s", "e", "t", "E", "q", "u", "a", "l", ";">>, <<"⊆">>>>,
      <<<<"S", "u", "c", "c", "e", "e", "d", "s", ";">>, <<"8827">>>>,
      <<<<"S", "u", "c", "c", "e", "e", "d", "s", "E", "q", "u", "a", "l", ";">>, <<"⪰">>>>,
      <<<<"S", "u", "c", "c", "e", "e", "d", "s", "S", "l", "a", "n", "t", "E", "q", "u", "a", "l", ";">>, <<"8829">>>>,
      <<<<"S", "u", "c", "c", "e", "e", "d", "s", "T", "i", "l", "d", "e", ";">>, <<"8831">>>>,
      <<<<"S", "u", "c", "h", "T", "h", "a", "t", ";">>, <<"8715">>>>,
      <<<<"S", "u", "m", ";">>, <<"8721">>>>, <<<<"S", "u", "p", ";">>, <<"⋑">>>>,
      <<<<"S", "u", "p", "e", "r", "s", "e", "t", ";">>, <<"⊃">>>>,
      <<<<"S", "u", "p", "e", "r", "s", "e", "t", "E", "q", "u", "a", "l", ";">>, <<"⊇">>>>,
      <<<<"S", "u", "p", "s", "e", "t", ";">>, <<"⋑">>>>,
      <<<<"T", "H", "O", "R", "N">>, <<"Þ">>>>, <<<<"T", "H", "O", "R", "N", ";">>, <<"Þ">>>>,
      <<<<"T", "R", "A", "D", "E", ";">>, <<"8482">>>>,
      <<<<"T", "S", "H", "c", "y", ";">>, <<"1035">>>>,
      <<<<"T", "S", "c", "y", ";">>, <<"1062">>>>, <<<<"T", "a", "b", ";">>, <<"\t">>>>,
      <<<<"T", "a", "u", ";">>, <<"Τ">>>>,
      <<<<"T", "c", "a", "r", "o", "n", ";">>, <<"356">>>>,
      <<<<"T", "c", "e", "d", "i", "l", ";">>, <<"354">>>>,
      <<<<"T", "c", "y", ";">>, <<"1058">>>>, <<<<"T", "f", "r", ";">>, <<"120087">>>>,
      <<<<"T", "h", "e", "r", "e", "f", "o", "r", "e", ";">>, <<"8756">>>>,
      <<<<"T", "h", "e", "t", "a", ";">>, <<"Θ">>>>,
      <<<<"T", "h", "i", "c", "k", "S", "p", "a", "c", "e", ";">>, <<"8287", "8202">>>>,
      <<<<"T", "h", "i", "n", "S", "p", "a", "c", "e", ";">>, <<"8201">>>>,
      <<<<"T", "i", "l", "d", "e", ";">>, <<"8764">>>>,
      <<<<"T", "i", "l", "d", "e", "E", "q", "u", "a", "l", ";">>, <<"8771">>>>,
      <<<<"T", "i", "l", "d", "e", "F", "u", "l", "l", "E", "q", "u", "a", "l", ";">>, <<"8773">>>>,
      <<<<"T", "i", "l", "d", "e", "T", "i", "l", "d", "e", ";">>, <<"8776">>>>,
      <<<<"T", "o", "p", "f", ";">>, <<"120139">>>>,
      <<<<"T", "r", "i", "p", "l", "e", "D", "o", "t", ";">>, <<"⃛">>>>,
      <<<<"T", "s", "c", "r", ";">>, <<"119983">>>>,
      <<<<"T", "s", "t", "r", "o", "k", ";">>, <<"358">>>>,
      <<<<"U", "a", "c", "u", "t", "e">>, <<"Ú">>>>,
      <<<<"U", "a", "c", "u", "t", "e", ";">>, <<"Ú">>>>,
      <<<<"U", "a", "r", "r", ";">>, <<"↟">>>>,
      <<<<"U", "a", "r", "r", "o", "c", "i", "r", ";">>, <<"10569">>>>,
      <<<<"U", "b", "r", "c", "y", ";">>, <<"1038">>>>,
      <<<<"U", "b", "r", "e", "v", "e", ";">>, <<"364">>>>,
      <<<<"U", "c", "i", "r", "c">>, <<"Û">>>>, <<<<"U", "c", "i", "r", "c", ";">>, <<"Û">>>>,
      <<<<"U", "c", "y", ";">>, <<"1059">>>>,
      <<<<"U", "d", "b", "l", "a", "c", ";">>, <<"368">>>>,
      <<<<"U", "f", "r", ";">>, <<"120088">>>>, <<<<"U", "g", "r", "a", "v", "e">>, <<"Ù">>>>,
      <<<<"U", "g", "r", "a", "v", "e", ";">>, <<"Ù">>>>,
      <<<<"U", "m", "a", "c", "r", ";">>, <<"362">>>>,
      <<<<"U", "n", "d", "e", "r", "B", "a", "r", ";">>, <<"_">>>>,
      <<<<"U", "n", "d", "e", "r", "B", "r", "a", "c", "e", ";">>, <<"⏟">>>>,
      <<<<"U", "n", "d", "e", "r", "B", "r", "a", "c", "k", "e", "t", ";">>, <<"⎵">>>>,
      <<<<"U", "n", "d", "e", "r", "P", "a", "r", "e", "n", "t", "h", "e", "s", "i", "s", ";">>, <<"⏝">>>>,
      <<<<"U", "n", "i", "o", "n", ";">>, <<"⋃">>>>,
      <<<<"U", "n", "i", "o", "n", "P", "l", "u", "s", ";">>, <<"⊎">>>>,
      <<<<"U", "o", "g", "o", "n", ";">>, <<"370">>>>,
      <<<<"U", "o", "p", "f", ";">>, <<"120140">>>>,
      <<<<"U", "p", "A", "r", "r", "o", "w", ";">>, <<"↑">>>>,
      <<<<"U", "p", "A", "r", "r", "o", "w", "B", "a", "r", ";">>, <<"10514">>>>,
      <<<<"U", "p", "A", "r", "r", "o", "w", "D", "o", "w", "n", "A", "r", "r", "o", "w", ";">>, <<"⇅">>>>,
      <<<<"U", "p", "D", "o", "w", "n", "A", "r", "r", "o", "w", ";">>, <<"↕">>>>,
      <<<<"U", "p", "E", "q", "u", "i", "l", "i", "b", "r", "i", "u", "m", ";">>, <<"10606">>>>,
      <<<<"U", "p", "T", "e", "e", ";">>, <<"⊥">>>>,
      <<<<"U", "p", "T", "e", "e", "A", "r", "r", "o", "w", ";">>, <<"↥">>>>,
      <<<<"U", "p", "a", "r", "r", "o", "w", ";">>, <<"⇑">>>>,
      <<<<"U", "p", "d", "o", "w", "n", "a", "r", "r", "o", "w", ";">>, <<"⇕">>>>,
      <<<<"U", "p", "p", "e", "r", "L", "e", "f", "t", "A", "r", "r", "o", "w", ";">>, <<"↖">>>>,
      <<<<"U", "p", "p", "e", "r", "R", "i", "g", "h", "t", "A", "r", "r", "o", "w", ";">>, <<"↗">>>>,
      <<<<"U", "p", "s", "i", ";">>, <<"ϒ">>>>,
      <<<<"U", "p", "s", "i", "l", "o", "n", ";">>, <<"Υ">>>>,
      <<<<"U", "r", "i", "n", "g", ";">>, <<"366">>>>,
      <<<<"U", "s", "c", "r", ";">>, <<"119984">>>>,
      <<<<"U", "t", "i", "l", "d", "e", ";">>, <<"360">>>>,
      <<<<"U", "u", "m", "l">>, <<"Ü">>>>, <<<<"U", "u", "m", "l", ";">>, <<"Ü">>>>,
      <<<<"V", "D", "a", "s", "h", ";">>, <<"⊫">>>>, <<<<"V", "b", "a", "r", ";">>, <<"⫫">>>>,
      <<<<"V", "c", "y", ";">>, <<"1042">>>>, <<<<"V", "d", "a", "s", "h", ";">>, <<"⊩">>>>,
      <<<<"V", "d", "a", "s", "h", "l", ";">>, <<"⫦">>>>, <<<<"V", "e", "e", ";">>, <<"⋁">>>>,
      <<<<"V", "e", "r", "b", "a", "r", ";">>, <<"8214">>>>,
      <<<<"V", "e", "r", "t", ";">>, <<"8214">>>>,
      <<<<"V", "e", "r", "t", "i", "c", "a", "l", "B", "a", "r", ";">>, <<"8739">>>>,
      <<<<"V", "e", "r", "t", "i", "c", "a", "l", "L", "i", "n", "e", ";">>, <<"|">>>>,
      <<<<"V", "e", "r", "t", "i", "c", "a", "l", "S", "e", "p", "a", "r", "a", "t", "o", "r", ";">>, <<"10072">>>>,
      <<<<"V", "e", "r", "t", "i", "c", "a", "l", "T", "i", "l", "d", "e", ";">>, <<"8768">>>>,
      <<<<"V", "e", "r", "y", "T", "h", "i", "n", "S", "p", "a", "c", "e", ";">>, <<"8202">>>>,
      <<<<"V", "f", "r", ";">>, <<"120089">>>>, <<<<"V", "o", "p", "f", ";">>, <<"120141">>>>,
      <<<<"V", "s", "c", "r", ";">>, <<"119985">>>>,
      <<<<"V", "v", "d", "a", "s", "h", ";">>, <<"⊪">>>>,
      <<<<"W", "c", "i", "r", "c", ";">>, <<"372">>>>,
      <<<<"W", "e", "d", "g", "e", ";">>, <<"⋀">>>>, <<<<"W", "f", "r", ";">>, <<"120090">>>>,
      <<<<"W", "o", "p", "f", ";">>, <<"120142">>>>,
      <<<<"W", "s", "c", "r", ";">>, <<"119986">>>>, <<<<"X", "f", "r", ";">>, <<"120091">>>>,
      <<<<"X", "i", ";">>, <<"Ξ">>>>, <<<<"X", "o", "p", "f", ";">>, <<"120143">>>>,
      <<<<"X", "s", "c", "r", ";">>, <<"119987">>>>,
      <<<<"Y", "A", "c", "y", ";">>, <<"1071">>>>, <<<<"Y", "I", "c", "y", ";">>, <<"1031">>>>,
      <<<<"Y", "U", "c", "y", ";">>, <<"1070">>>>,
      <<<<"Y", "a", "c", "u", "t", "e">>, <<"Ý">>>>,
      <<<<"Y", "a", "c", "u", "t", "e", ";">>, <<"Ý">>>>,
      <<<<"Y", "c", "i", "r", "c", ";">>, <<"374">>>>, <<<<"Y", "c", "y", ";">>, <<"1067">>>>,
      <<<<"Y", "f", "r", ";">>, <<"120092">>>>, <<<<"Y", "o", "p", "f", ";">>, <<"120144">>>>,
      <<<<"Y", "s", "c", "r", ";">>, <<"119988">>>>,
      <<<<"Y", "u", "m", "l", ";">>, <<"376">>>>, <<<<"Z", "H", "c", "y", ";">>, <<"1046">>>>,
      <<<<"Z", "a", "c", "u", "t", "e", ";">>, <<"377">>>>,
      <<<<"Z", "c", "a", "r", "o", "n", ";">>, <<"381">>>>,
      <<<<"Z", "c", "y", ";">>, <<"1047">>>>, <<<<"Z", "d", "o", "t", ";">>, <<"379">>>>,
      <<<<"Z", "e", "r", "o", "W", "i", "d", "t", "h", "S", "p", "a", "c", "e", ";">>, <<"8203">>>>,
      <<<<"Z", "e", "t", "a", ";">>, <<"Ζ">>>>, <<<<"Z", "f", "r", ";">>, <<"8488">>>>,
      <<<<"Z", "o", "p", "f", ";">>, <<"8484">>>>,
      <<<<"Z", "s", "c", "r", ";">>, <<"119989">>>>,
      <<<<"a", "a", "c", "u", "t", "e">>, <<"á">>>>,
      <<<<"a", "a", "c", "u", "t", "e", ";">>, <<"á">>>>,
      <<<<"a", "b", "r", "e", "v", "e", ";">>, <<"259">>>>, <<<<"a", "c", ";">>, <<"8766">>>>,
      <<<<"a", "c", "E", ";">>, <<"8766", "819">>>>, <<<<"a", "c", "d", ";">>, <<"8767">>>>,
      <<<<"a", "c", "i", "r", "c">>, <<"â">>>>, <<<<"a", "c", "i", "r", "c", ";">>, <<"â">>>>,
      <<<<"a", "c", "u", "t", "e">>, <<"´">>>>, <<<<"a", "c", "u", "t", "e", ";">>, <<"´">>>>,
      <<<<"a", "c", "y", ";">>, <<"1072">>>>, <<<<"a", "e", "l", "i", "g">>, <<"æ">>>>,
      <<<<"a", "e", "l", "i", "g", ";">>, <<"æ">>>>, <<<<"a", "f", ";">>, <<"8289">>>>,
      <<<<"a", "f", "r", ";">>, <<"120094">>>>, <<<<"a", "g", "r", "a", "v", "e">>, <<"à">>>>,
      <<<<"a", "g", "r", "a", "v", "e", ";">>, <<"à">>>>,
      <<<<"a", "l", "e", "f", "s", "y", "m", ";">>, <<"8501">>>>,
      <<<<"a", "l", "e", "p", "h", ";">>, <<"8501">>>>,
      <<<<"a", "l", "p", "h", "a", ";">>, <<"α">>>>,
      <<<<"a", "m", "a", "c", "r", ";">>, <<"257">>>>,
      <<<<"a", "m", "a", "l", "g", ";">>, <<"10815">>>>, <<<<"a", "m", "p">>, <<"&">>>>,
      <<<<"a", "m", "p", ";">>, <<"&">>>>, <<<<"a", "n", "d", ";">>, <<"8743">>>>,
      <<<<"a", "n", "d", "a", "n", "d", ";">>, <<"10837">>>>,
      <<<<"a", "n", "d", "d", ";">>, <<"10844">>>>,
      <<<<"a", "n", "d", "s", "l", "o", "p", "e", ";">>, <<"10840">>>>,
      <<<<"a", "n", "d", "v", ";">>, <<"10842">>>>, <<<<"a", "n", "g", ";">>, <<"8736">>>>,
      <<<<"a", "n", "g", "e", ";">>, <<"⦤">>>>,
      <<<<"a", "n", "g", "l", "e", ";">>, <<"8736">>>>,
      <<<<"a", "n", "g", "m", "s", "d", ";">>, <<"8737">>>>,
      <<<<"a", "n", "g", "m", "s", "d", "a", "a", ";">>, <<"⦨">>>>,
      <<<<"a", "n", "g", "m", "s", "d", "a", "b", ";">>, <<"⦩">>>>,
      <<<<"a", "n", "g", "m", "s", "d", "a", "c", ";">>, <<"⦪">>>>,
      <<<<"a", "n", "g", "m", "s", "d", "a", "d", ";">>, <<"⦫">>>>,
      <<<<"a", "n", "g", "m", "s", "d", "a", "e", ";">>, <<"⦬">>>>,
      <<<<"a", "n", "g", "m", "s", "d", "a", "f", ";">>, <<"⦭">>>>,
      <<<<"a", "n", "g", "m", "s", "d", "a", "g", ";">>, <<"⦮">>>>,
      <<<<"a", "n", "g", "m", "s", "d", "a", "h", ";">>, <<"⦯">>>>,
      <<<<"a", "n", "g", "r", "t", ";">>, <<"8735">>>>,
      <<<<"a", "n", "g", "r", "t", "v", "b", ";">>, <<"⊾">>>>,
      <<<<"a", "n", "g", "r", "t", "v", "b", "d", ";">>, <<"⦝">>>>,
      <<<<"a", "n", "g", "s", "p", "h", ";">>, <<"8738">>>>,
      <<<<"a", "n", "g", "s", "t", ";">>, <<"Å">>>>,
      <<<<"a", "n", "g", "z", "a", "r", "r", ";">>, <<"9084">>>>,
      <<<<"a", "o", "g", "o", "n", ";">>, <<"261">>>>,
      <<<<"a", "o", "p", "f", ";">>, <<"120146">>>>, <<<<"a", "p", ";">>, <<"8776">>>>,
      <<<<"a", "p", "E", ";">>, <<"10864">>>>,
      <<<<"a", "p", "a", "c", "i", "r", ";">>, <<"10863">>>>,
      <<<<"a", "p", "e", ";">>, <<"8778">>>>, <<<<"a", "p", "i", "d", ";">>, <<"8779">>>>,
      <<<<"a", "p", "o", "s", ";">>, <<"'">>>>,
      <<<<"a", "p", "p", "r", "o", "x", ";">>, <<"8776">>>>,
      <<<<"a", "p", "p", "r", "o", "x", "e", "q", ";">>, <<"8778">>>>,
      <<<<"a", "r", "i", "n", "g">>, <<"å">>>>, <<<<"a", "r", "i", "n", "g", ";">>, <<"å">>>>,
      <<<<"a", "s", "c", "r", ";">>, <<"119990">>>>, <<<<"a", "s", "t", ";">>, <<"*">>>>,
      <<<<"a", "s", "y", "m", "p", ";">>, <<"8776">>>>,
      <<<<"a", "s", "y", "m", "p", "e", "q", ";">>, <<"8781">>>>,
      <<<<"a", "t", "i", "l", "d", "e">>, <<"ã">>>>,
      <<<<"a", "t", "i", "l", "d", "e", ";">>, <<"ã">>>>, <<<<"a", "u", "m", "l">>, <<"ä">>>>,
      <<<<"a", "u", "m", "l", ";">>, <<"ä">>>>,
      <<<<"a", "w", "c", "o", "n", "i", "n", "t", ";">>, <<"8755">>>>,
      <<<<"a", "w", "i", "n", "t", ";">>, <<"10769">>>>,
      <<<<"b", "N", "o", "t", ";">>, <<"⫭">>>>,
      <<<<"b", "a", "c", "k", "c", "o", "n", "g", ";">>, <<"8780">>>>,
      <<<<"b", "a", "c", "k", "e", "p", "s", "i", "l", "o", "n", ";">>, <<"϶">>>>,
      <<<<"b", "a", "c", "k", "p", "r", "i", "m", "e", ";">>, <<"8245">>>>,
      <<<<"b", "a", "c", "k", "s", "i", "m", ";">>, <<"8765">>>>,
      <<<<"b", "a", "c", "k", "s", "i", "m", "e", "q", ";">>, <<"⋍">>>>,
      <<<<"b", "a", "r", "v", "e", "e", ";">>, <<"⊽">>>>,
      <<<<"b", "a", "r", "w", "e", "d", ";">>, <<"8965">>>>,
      <<<<"b", "a", "r", "w", "e", "d", "g", "e", ";">>, <<"8965">>>>,
      <<<<"b", "b", "r", "k", ";">>, <<"⎵">>>>,
      <<<<"b", "b", "r", "k", "t", "b", "r", "k", ";">>, <<"⎶">>>>,
      <<<<"b", "c", "o", "n", "g", ";">>, <<"8780">>>>, <<<<"b", "c", "y", ";">>, <<"1073">>>>,
      <<<<"b", "d", "q", "u", "o", ";">>, <<"8222">>>>,
      <<<<"b", "e", "c", "a", "u", "s", ";">>, <<"8757">>>>,
      <<<<"b", "e", "c", "a", "u", "s", "e", ";">>, <<"8757">>>>,
      <<<<"b", "e", "m", "p", "t", "y", "v", ";">>, <<"⦰">>>>,
      <<<<"b", "e", "p", "s", "i", ";">>, <<"϶">>>>,
      <<<<"b", "e", "r", "n", "o", "u", ";">>, <<"8492">>>>,
      <<<<"b", "e", "t", "a", ";">>, <<"β">>>>, <<<<"b", "e", "t", "h", ";">>, <<"8502">>>>,
      <<<<"b", "e", "t", "w", "e", "e", "n", ";">>, <<"8812">>>>,
      <<<<"b", "f", "r", ";">>, <<"120095">>>>,
      <<<<"b", "i", "g", "c", "a", "p", ";">>, <<"⋂">>>>,
      <<<<"b", "i", "g", "c", "i", "r", "c", ";">>, <<"◯">>>>,
      <<<<"b", "i", "g", "c", "u", "p", ";">>, <<"⋃">>>>,
      <<<<"b", "i", "g", "o", "d", "o", "t", ";">>, <<"10752">>>>,
      <<<<"b", "i", "g", "o", "p", "l", "u", "s", ";">>, <<"10753">>>>,
      <<<<"b", "i", "g", "o", "t", "i", "m", "e", "s", ";">>, <<"10754">>>>,
      <<<<"b", "i", "g", "s", "q", "c", "u", "p", ";">>, <<"10758">>>>,
      <<<<"b", "i", "g", "s", "t", "a", "r", ";">>, <<"9733">>>>,
      <<<<"b", "i", "g", "t", "r", "i", "a", "n", "g", "l", "e", "d", "o", "w", "n", ";">>, <<"▽">>>>,
      <<<<"b", "i", "g", "t", "r", "i", "a", "n", "g", "l", "e", "u", "p", ";">>, <<"△">>>>,
      <<<<"b", "i", "g", "u", "p", "l", "u", "s", ";">>, <<"10756">>>>,
      <<<<"b", "i", "g", "v", "e", "e", ";">>, <<"⋁">>>>,
      <<<<"b", "i", "g", "w", "e", "d", "g", "e", ";">>, <<"⋀">>>>,
      <<<<"b", "k", "a", "r", "o", "w", ";">>, <<"10509">>>>,
      <<<<"b", "l", "a", "c", "k", "l", "o", "z", "e", "n", "g", "e", ";">>, <<"⧫">>>>,
      <<<<"b", "l", "a", "c", "k", "s", "q", "u", "a", "r", "e", ";">>, <<"▪">>>>,
      <<<<"b", "l", "a", "c", "k", "t", "r", "i", "a", "n", "g", "l", "e", ";">>, <<"▴">>>>,
      <<<<"b", "l", "a", "c", "k", "t", "r", "i", "a", "n", "g", "l", "e", "d", "o", "w", "n", ";">>, <<"▾">>>>,
      <<<<"b", "l", "a", "c", "k", "t", "r", "i", "a", "n", "g", "l", "e", "l", "e", "f", "t", ";">>, <<"◂">>>>,
      <<<<"b", "l", "a", "c", "k", "t", "r", "i", "a", "n", "g", "l", "e", "r", "i", "g", "h", "t", ";">>, <<"▸">>>>,
      <<<<"b", "l", "a", "n", "k", ";">>, <<"9251">>>>,
      <<<<"b", "l", "k", "1", "2", ";">>, <<"▒">>>>,
      <<<<"b", "l", "k", "1", "4", ";">>, <<"░">>>>,
      <<<<"b", "l", "k", "3", "4", ";">>, <<"▓">>>>,
      <<<<"b", "l", "o", "c", "k", ";">>, <<"█">>>>, <<<<"b", "n", "e", ";">>, <<"=", "⃥">>>>,
      <<<<"b", "n", "e", "q", "u", "i", "v", ";">>, <<"8801", "⃥">>>>,
      <<<<"b", "n", "o", "t", ";">>, <<"8976">>>>,
      <<<<"b", "o", "p", "f", ";">>, <<"120147">>>>, <<<<"b", "o", "t", ";">>, <<"⊥">>>>,
      <<<<"b", "o", "t", "t", "o", "m", ";">>, <<"⊥">>>>,
      <<<<"b", "o", "w", "t", "i", "e", ";">>, <<"⋈">>>>,
      <<<<"b", "o", "x", "D", "L", ";">>, <<"9559">>>>,
      <<<<"b", "o", "x", "D", "R", ";">>, <<"9556">>>>,
      <<<<"b", "o", "x", "D", "l", ";">>, <<"9558">>>>,
      <<<<"b", "o", "x", "D", "r", ";">>, <<"9555">>>>,
      <<<<"b", "o", "x", "H", ";">>, <<"9552">>>>,
      <<<<"b", "o", "x", "H", "D", ";">>, <<"9574">>>>,
      <<<<"b", "o", "x", "H", "U", ";">>, <<"9577">>>>,
      <<<<"b", "o", "x", "H", "d", ";">>, <<"9572">>>>,
      <<<<"b", "o", "x", "H", "u", ";">>, <<"9575">>>>,
      <<<<"b", "o", "x", "U", "L", ";">>, <<"9565">>>>,
      <<<<"b", "o", "x", "U", "R", ";">>, <<"9562">>>>,
      <<<<"b", "o", "x", "U", "l", ";">>, <<"9564">>>>,
      <<<<"b", "o", "x", "U", "r", ";">>, <<"9561">>>>,
      <<<<"b", "o", "x", "V", ";">>, <<"9553">>>>,
      <<<<"b", "o", "x", "V", "H", ";">>, <<"9580">>>>,
      <<<<"b", "o", "x", "V", "L", ";">>, <<"9571">>>>,
      <<<<"b", "o", "x", "V", "R", ";">>, <<"9568">>>>,
      <<<<"b", "o", "x", "V", "h", ";">>, <<"9579">>>>,
      <<<<"b", "o", "x", "V", "l", ";">>, <<"9570">>>>,
      <<<<"b", "o", "x", "V", "r", ";">>, <<"9567">>>>,
      <<<<"b", "o", "x", "b", "o", "x", ";">>, <<"⧉">>>>,
      <<<<"b", "o", "x", "d", "L", ";">>, <<"9557">>>>,
      <<<<"b", "o", "x", "d", "R", ";">>, <<"9554">>>>,
      <<<<"b", "o", "x", "d", "l", ";">>, <<"9488">>>>,
      <<<<"b", "o", "x", "d", "r", ";">>, <<"9484">>>>,
      <<<<"b", "o", "x", "h", ";">>, <<"9472">>>>,
      <<<<"b", "o", "x", "h", "D", ";">>, <<"9573">>>>,
      <<<<"b", "o", "x", "h", "U", ";">>, <<"9576">>>>,
      <<<<"b", "o", "x", "h", "d", ";">>, <<"9516">>>>,
      <<<<"b", "o", "x", "h", "u", ";">>, <<"9524">>>>,
      <<<<"b", "o", "x", "m", "i", "n", "u", "s", ";">>, <<"⊟">>>>,
      <<<<"b", "o", "x", "p", "l", "u", "s", ";">>, <<"⊞">>>>,
      <<<<"b", "o", "x", "t", "i", "m", "e", "s", ";">>, <<"⊠">>>>,
      <<<<"b", "o", "x", "u", "L", ";">>, <<"9563">>>>,
      <<<<"b", "o", "x", "u", "R", ";">>, <<"9560">>>>,
      <<<<"b", "o", "x", "u", "l", ";">>, <<"9496">>>>,
      <<<<"b", "o", "x", "u", "r", ";">>, <<"9492">>>>,
      <<<<"b", "o", "x", "v", ";">>, <<"9474">>>>,
      <<<<"b", "o", "x", "v", "H", ";">>, <<"9578">>>>,
      <<<<"b", "o", "x", "v", "L", ";">>, <<"9569">>>>,
      <<<<"b", "o", "x", "v", "R", ";">>, <<"9566">>>>,
      <<<<"b", "o", "x", "v", "h", ";">>, <<"9532">>>>,
      <<<<"b", "o", "x", "v", "l", ";">>, <<"9508">>>>,
      <<<<"b", "o", "x", "v", "r", ";">>, <<"9500">>>>,
      <<<<"b", "p", "r", "i", "m", "e", ";">>, <<"8245">>>>,
      <<<<"b", "r", "e", "v", "e", ";">>, <<"˘">>>>,
      <<<<"b", "r", "v", "b", "a", "r">>, <<"¦">>>>,
      <<<<"b", "r", "v", "b", "a", "r", ";">>, <<"¦">>>>,
      <<<<"b", "s", "c", "r", ";">>, <<"119991">>>>,
      <<<<"b", "s", "e", "m", "i", ";">>, <<"8271">>>>,
      <<<<"b", "s", "i", "m", ";">>, <<"8765">>>>,
      <<<<"b", "s", "i", "m", "e", ";">>, <<"⋍">>>>, <<<<"b", "s", "o", "l", ";">>, <<"\\">>>>,
      <<<<"b", "s", "o", "l", "b", ";">>, <<"⧅">>>>,
      <<<<"b", "s", "o", "l", "h", "s", "u", "b", ";">>, <<"⟈">>>>,
      <<<<"b", "u", "l", "l", ";">>, <<"8226">>>>,
      <<<<"b", "u", "l", "l", "e", "t", ";">>, <<"8226">>>>,
      <<<<"b", "u", "m", "p", ";">>, <<"8782">>>>,
      <<<<"b", "u", "m", "p", "E", ";">>, <<"⪮">>>>,
      <<<<"b", "u", "m", "p", "e", ";">>, <<"8783">>>>,
      <<<<"b", "u", "m", "p", "e", "q", ";">>, <<"8783">>>>,
      <<<<"c", "a", "c", "u", "t", "e", ";">>, <<"263">>>>,
      <<<<"c", "a", "p", ";">>, <<"8745">>>>,
      <<<<"c", "a", "p", "a", "n", "d", ";">>, <<"10820">>>>,
      <<<<"c", "a", "p", "b", "r", "c", "u", "p", ";">>, <<"10825">>>>,
      <<<<"c", "a", "p", "c", "a", "p", ";">>, <<"10827">>>>,
      <<<<"c", "a", "p", "c", "u", "p", ";">>, <<"10823">>>>,
      <<<<"c", "a", "p", "d", "o", "t", ";">>, <<"10816">>>>,
      <<<<"c", "a", "p", "s", ";">>, <<"8745", "65024">>>>,
      <<<<"c", "a", "r", "e", "t", ";">>, <<"8257">>>>,
      <<<<"c", "a", "r", "o", "n", ";">>, <<"ˇ">>>>,
      <<<<"c", "c", "a", "p", "s", ";">>, <<"10829">>>>,
      <<<<"c", "c", "a", "r", "o", "n", ";">>, <<"269">>>>,
      <<<<"c", "c", "e", "d", "i", "l">>, <<"ç">>>>,
      <<<<"c", "c", "e", "d", "i", "l", ";">>, <<"ç">>>>,
      <<<<"c", "c", "i", "r", "c", ";">>, <<"265">>>>,
      <<<<"c", "c", "u", "p", "s", ";">>, <<"10828">>>>,
      <<<<"c", "c", "u", "p", "s", "s", "m", ";">>, <<"10832">>>>,
      <<<<"c", "d", "o", "t", ";">>, <<"267">>>>, <<<<"c", "e", "d", "i", "l">>, <<"¸">>>>,
      <<<<"c", "e", "d", "i", "l", ";">>, <<"¸">>>>,
      <<<<"c", "e", "m", "p", "t", "y", "v", ";">>, <<"⦲">>>>,
      <<<<"c", "e", "n", "t">>, <<"¢">>>>, <<<<"c", "e", "n", "t", ";">>, <<"¢">>>>,
      <<<<"c", "e", "n", "t", "e", "r", "d", "o", "t", ";">>, <<"·">>>>,
      <<<<"c", "f", "r", ";">>, <<"120096">>>>, <<<<"c", "h", "c", "y", ";">>, <<"1095">>>>,
      <<<<"c", "h", "e", "c", "k", ";">>, <<"10003">>>>,
      <<<<"c", "h", "e", "c", "k", "m", "a", "r", "k", ";">>, <<"10003">>>>,
      <<<<"c", "h", "i", ";">>, <<"χ">>>>, <<<<"c", "i", "r", ";">>, <<"○">>>>,
      <<<<"c", "i", "r", "E", ";">>, <<"⧃">>>>, <<<<"c", "i", "r", "c", ";">>, <<"ˆ">>>>,
      <<<<"c", "i", "r", "c", "e", "q", ";">>, <<"8791">>>>,
      <<<<"c", "i", "r", "c", "l", "e", "a", "r", "r", "o", "w", "l", "e", "f", "t", ";">>, <<"↺">>>>,
      <<<<"c", "i", "r", "c", "l", "e", "a", "r", "r", "o", "w", "r", "i", "g", "h", "t", ";">>, <<"↻">>>>,
      <<<<"c", "i", "r", "c", "l", "e", "d", "R", ";">>, <<"®">>>>,
      <<<<"c", "i", "r", "c", "l", "e", "d", "S", ";">>, <<"Ⓢ">>>>,
      <<<<"c", "i", "r", "c", "l", "e", "d", "a", "s", "t", ";">>, <<"⊛">>>>,
      <<<<"c", "i", "r", "c", "l", "e", "d", "c", "i", "r", "c", ";">>, <<"⊚">>>>,
      <<<<"c", "i", "r", "c", "l", "e", "d", "d", "a", "s", "h", ";">>, <<"⊝">>>>,
      <<<<"c", "i", "r", "e", ";">>, <<"8791">>>>,
      <<<<"c", "i", "r", "f", "n", "i", "n", "t", ";">>, <<"10768">>>>,
      <<<<"c", "i", "r", "m", "i", "d", ";">>, <<"⫯">>>>,
      <<<<"c", "i", "r", "s", "c", "i", "r", ";">>, <<"⧂">>>>,
      <<<<"c", "l", "u", "b", "s", ";">>, <<"9827">>>>,
      <<<<"c", "l", "u", "b", "s", "u", "i", "t", ";">>, <<"9827">>>>,
      <<<<"c", "o", "l", "o", "n", ";">>, <<":">>>>,
      <<<<"c", "o", "l", "o", "n", "e", ";">>, <<"8788">>>>,
      <<<<"c", "o", "l", "o", "n", "e", "q", ";">>, <<"8788">>>>,
      <<<<"c", "o", "m", "m", "a", ";">>, <<",">>>>,
      <<<<"c", "o", "m", "m", "a", "t", ";">>, <<"@">>>>,
      <<<<"c", "o", "m", "p", ";">>, <<"8705">>>>,
      <<<<"c", "o", "m", "p", "f", "n", ";">>, <<"8728">>>>,
      <<<<"c", "o", "m", "p", "l", "e", "m", "e", "n", "t", ";">>, <<"8705">>>>,
      <<<<"c", "o", "m", "p", "l", "e", "x", "e", "s", ";">>, <<"8450">>>>,
      <<<<"c", "o", "n", "g", ";">>, <<"8773">>>>,
      <<<<"c", "o", "n", "g", "d", "o", "t", ";">>, <<"10861">>>>,
      <<<<"c", "o", "n", "i", "n", "t", ";">>, <<"8750">>>>,
      <<<<"c", "o", "p", "f", ";">>, <<"120148">>>>,
      <<<<"c", "o", "p", "r", "o", "d", ";">>, <<"8720">>>>,
      <<<<"c", "o", "p", "y">>, <<"©">>>>, <<<<"c", "o", "p", "y", ";">>, <<"©">>>>,
      <<<<"c", "o", "p", "y", "s", "r", ";">>, <<"8471">>>>,
      <<<<"c", "r", "a", "r", "r", ";">>, <<"↵">>>>,
      <<<<"c", "r", "o", "s", "s", ";">>, <<"10007">>>>,
      <<<<"c", "s", "c", "r", ";">>, <<"119992">>>>, <<<<"c", "s", "u", "b", ";">>, <<"⫏">>>>,
      <<<<"c", "s", "u", "b", "e", ";">>, <<"⫑">>>>, <<<<"c", "s", "u", "p", ";">>, <<"⫐">>>>,
      <<<<"c", "s", "u", "p", "e", ";">>, <<"⫒">>>>,
      <<<<"c", "t", "d", "o", "t", ";">>, <<"⋯">>>>,
      <<<<"c", "u", "d", "a", "r", "r", "l", ";">>, <<"10552">>>>,
      <<<<"c", "u", "d", "a", "r", "r", "r", ";">>, <<"10549">>>>,
      <<<<"c", "u", "e", "p", "r", ";">>, <<"⋞">>>>,
      <<<<"c", "u", "e", "s", "c", ";">>, <<"⋟">>>>,
      <<<<"c", "u", "l", "a", "r", "r", ";">>, <<"↶">>>>,
      <<<<"c", "u", "l", "a", "r", "r", "p", ";">>, <<"10557">>>>,
      <<<<"c", "u", "p", ";">>, <<"8746">>>>,
      <<<<"c", "u", "p", "b", "r", "c", "a", "p", ";">>, <<"10824">>>>,
      <<<<"c", "u", "p", "c", "a", "p", ";">>, <<"10822">>>>,
      <<<<"c", "u", "p", "c", "u", "p", ";">>, <<"10826">>>>,
      <<<<"c", "u", "p", "d", "o", "t", ";">>, <<"⊍">>>>,
      <<<<"c", "u", "p", "o", "r", ";">>, <<"10821">>>>,
      <<<<"c", "u", "p", "s", ";">>, <<"8746", "65024">>>>,
      <<<<"c", "u", "r", "a", "r", "r", ";">>, <<"↷">>>>,
      <<<<"c", "u", "r", "a", "r", "r", "m", ";">>, <<"10556">>>>,
      <<<<"c", "u", "r", "l", "y", "e", "q", "p", "r", "e", "c", ";">>, <<"⋞">>>>,
      <<<<"c", "u", "r", "l", "y", "e", "q", "s", "u", "c", "c", ";">>, <<"⋟">>>>,
      <<<<"c", "u", "r", "l", "y", "v", "e", "e", ";">>, <<"⋎">>>>,
      <<<<"c", "u", "r", "l", "y", "w", "e", "d", "g", "e", ";">>, <<"⋏">>>>,
      <<<<"c", "u", "r", "r", "e", "n">>, <<"¤">>>>,
      <<<<"c", "u", "r", "r", "e", "n", ";">>, <<"¤">>>>,
      <<<<"c", "u", "r", "v", "e", "a", "r", "r", "o", "w", "l", "e", "f", "t", ";">>, <<"↶">>>>,
      <<<<"c", "u", "r", "v", "e", "a", "r", "r", "o", "w", "r", "i", "g", "h", "t", ";">>, <<"↷">>>>,
      <<<<"c", "u", "v", "e", "e", ";">>, <<"⋎">>>>,
      <<<<"c", "u", "w", "e", "d", ";">>, <<"⋏">>>>,
      <<<<"c", "w", "c", "o", "n", "i", "n", "t", ";">>, <<"8754">>>>,
      <<<<"c", "w", "i", "n", "t", ";">>, <<"8753">>>>,
      <<<<"c", "y", "l", "c", "t", "y", ";">>, <<"9005">>>>,
      <<<<"d", "A", "r", "r", ";">>, <<"⇓">>>>, <<<<"d", "H", "a", "r", ";">>, <<"10597">>>>,
      <<<<"d", "a", "g", "g", "e", "r", ";">>, <<"8224">>>>,
      <<<<"d", "a", "l", "e", "t", "h", ";">>, <<"8504">>>>,
      <<<<"d", "a", "r", "r", ";">>, <<"↓">>>>, <<<<"d", "a", "s", "h", ";">>, <<"8208">>>>,
      <<<<"d", "a", "s", "h", "v", ";">>, <<"⊣">>>>,
      <<<<"d", "b", "k", "a", "r", "o", "w", ";">>, <<"10511">>>>,
      <<<<"d", "b", "l", "a", "c", ";">>, <<"˝">>>>,
      <<<<"d", "c", "a", "r", "o", "n", ";">>, <<"271">>>>,
      <<<<"d", "c", "y", ";">>, <<"1076">>>>, <<<<"d", "d", ";">>, <<"8518">>>>,
      <<<<"d", "d", "a", "g", "g", "e", "r", ";">>, <<"8225">>>>,
      <<<<"d", "d", "a", "r", "r", ";">>, <<"⇊">>>>,
      <<<<"d", "d", "o", "t", "s", "e", "q", ";">>, <<"10871">>>>,
      <<<<"d", "e", "g">>, <<"°">>>>, <<<<"d", "e", "g", ";">>, <<"°">>>>,
      <<<<"d", "e", "l", "t", "a", ";">>, <<"δ">>>>,
      <<<<"d", "e", "m", "p", "t", "y", "v", ";">>, <<"⦱">>>>,
      <<<<"d", "f", "i", "s", "h", "t", ";">>, <<"10623">>>>,
      <<<<"d", "f", "r", ";">>, <<"120097">>>>, <<<<"d", "h", "a", "r", "l", ";">>, <<"⇃">>>>,
      <<<<"d", "h", "a", "r", "r", ";">>, <<"⇂">>>>, <<<<"d", "i", "a", "m", ";">>, <<"⋄">>>>,
      <<<<"d", "i", "a", "m", "o", "n", "d", ";">>, <<"⋄">>>>,
      <<<<"d", "i", "a", "m", "o", "n", "d", "s", "u", "i", "t", ";">>, <<"9830">>>>,
      <<<<"d", "i", "a", "m", "s", ";">>, <<"9830">>>>, <<<<"d", "i", "e", ";">>, <<"¨">>>>,
      <<<<"d", "i", "g", "a", "m", "m", "a", ";">>, <<"ϝ">>>>,
      <<<<"d", "i", "s", "i", "n", ";">>, <<"⋲">>>>, <<<<"d", "i", "v", ";">>, <<"÷">>>>,
      <<<<"d", "i", "v", "i", "d", "e">>, <<"÷">>>>,
      <<<<"d", "i", "v", "i", "d", "e", ";">>, <<"÷">>>>,
      <<<<"d", "i", "v", "i", "d", "e", "o", "n", "t", "i", "m", "e", "s", ";">>, <<"⋇">>>>,
      <<<<"d", "i", "v", "o", "n", "x", ";">>, <<"⋇">>>>,
      <<<<"d", "j", "c", "y", ";">>, <<"1106">>>>,
      <<<<"d", "l", "c", "o", "r", "n", ";">>, <<"8990">>>>,
      <<<<"d", "l", "c", "r", "o", "p", ";">>, <<"8973">>>>,
      <<<<"d", "o", "l", "l", "a", "r", ";">>, <<"$">>>>,
      <<<<"d", "o", "p", "f", ";">>, <<"120149">>>>, <<<<"d", "o", "t", ";">>, <<"˙">>>>,
      <<<<"d", "o", "t", "e", "q", ";">>, <<"8784">>>>,
      <<<<"d", "o", "t", "e", "q", "d", "o", "t", ";">>, <<"8785">>>>,
      <<<<"d", "o", "t", "m", "i", "n", "u", "s", ";">>, <<"8760">>>>,
      <<<<"d", "o", "t", "p", "l", "u", "s", ";">>, <<"8724">>>>,
      <<<<"d", "o", "t", "s", "q", "u", "a", "r", "e", ";">>, <<"⊡">>>>,
      <<<<"d", "o", "u", "b", "l", "e", "b", "a", "r", "w", "e", "d", "g", "e", ";">>, <<"8966">>>>,
      <<<<"d", "o", "w", "n", "a", "r", "r", "o", "w", ";">>, <<"↓">>>>,
      <<<<"d", "o", "w", "n", "d", "o", "w", "n", "a", "r", "r", "o", "w", "s", ";">>, <<"⇊">>>>,
      <<<<"d", "o", "w", "n", "h", "a", "r", "p", "o", "o", "n", "l", "e", "f", "t", ";">>, <<"⇃">>>>,
      <<<<"d", "o", "w", "n", "h", "a", "r", "p", "o", "o", "n", "r", "i", "g", "h", "t", ";">>, <<"⇂">>>>,
      <<<<"d", "r", "b", "k", "a", "r", "o", "w", ";">>, <<"10512">>>>,
      <<<<"d", "r", "c", "o", "r", "n", ";">>, <<"8991">>>>,
      <<<<"d", "r", "c", "r", "o", "p", ";">>, <<"8972">>>>,
      <<<<"d", "s", "c", "r", ";">>, <<"119993">>>>,
      <<<<"d", "s", "c", "y", ";">>, <<"1109">>>>, <<<<"d", "s", "o", "l", ";">>, <<"⧶">>>>,
      <<<<"d", "s", "t", "r", "o", "k", ";">>, <<"273">>>>,
      <<<<"d", "t", "d", "o", "t", ";">>, <<"⋱">>>>, <<<<"d", "t", "r", "i", ";">>, <<"▿">>>>,
      <<<<"d", "t", "r", "i", "f", ";">>, <<"▾">>>>,
      <<<<"d", "u", "a", "r", "r", ";">>, <<"⇵">>>>,
      <<<<"d", "u", "h", "a", "r", ";">>, <<"10607">>>>,
      <<<<"d", "w", "a", "n", "g", "l", "e", ";">>, <<"⦦">>>>,
      <<<<"d", "z", "c", "y", ";">>, <<"1119">>>>,
      <<<<"d", "z", "i", "g", "r", "a", "r", "r", ";">>, <<"⟿">>>>,
      <<<<"e", "D", "D", "o", "t", ";">>, <<"10871">>>>,
      <<<<"e", "D", "o", "t", ";">>, <<"8785">>>>,
      <<<<"e", "a", "c", "u", "t", "e">>, <<"é">>>>,
      <<<<"e", "a", "c", "u", "t", "e", ";">>, <<"é">>>>,
      <<<<"e", "a", "s", "t", "e", "r", ";">>, <<"10862">>>>,
      <<<<"e", "c", "a", "r", "o", "n", ";">>, <<"283">>>>,
      <<<<"e", "c", "i", "r", ";">>, <<"8790">>>>, <<<<"e", "c", "i", "r", "c">>, <<"ê">>>>,
      <<<<"e", "c", "i", "r", "c", ";">>, <<"ê">>>>,
      <<<<"e", "c", "o", "l", "o", "n", ";">>, <<"8789">>>>,
      <<<<"e", "c", "y", ";">>, <<"1101">>>>, <<<<"e", "d", "o", "t", ";">>, <<"279">>>>,
      <<<<"e", "e", ";">>, <<"8519">>>>, <<<<"e", "f", "D", "o", "t", ";">>, <<"8786">>>>,
      <<<<"e", "f", "r", ";">>, <<"120098">>>>, <<<<"e", "g", ";">>, <<"⪚">>>>,
      <<<<"e", "g", "r", "a", "v", "e">>, <<"è">>>>,
      <<<<"e", "g", "r", "a", "v", "e", ";">>, <<"è">>>>, <<<<"e", "g", "s", ";">>, <<"⪖">>>>,
      <<<<"e", "g", "s", "d", "o", "t", ";">>, <<"⪘">>>>, <<<<"e", "l", ";">>, <<"⪙">>>>,
      <<<<"e", "l", "i", "n", "t", "e", "r", "s", ";">>, <<"⏧">>>>,
      <<<<"e", "l", "l", ";">>, <<"8467">>>>, <<<<"e", "l", "s", ";">>, <<"⪕">>>>,
      <<<<"e", "l", "s", "d", "o", "t", ";">>, <<"⪗">>>>,
      <<<<"e", "m", "a", "c", "r", ";">>, <<"275">>>>,
      <<<<"e", "m", "p", "t", "y", ";">>, <<"8709">>>>,
      <<<<"e", "m", "p", "t", "y", "s", "e", "t", ";">>, <<"8709">>>>,
      <<<<"e", "m", "p", "t", "y", "v", ";">>, <<"8709">>>>,
      <<<<"e", "m", "s", "p", "1", "3", ";">>, <<"8196">>>>,
      <<<<"e", "m", "s", "p", "1", "4", ";">>, <<"8197">>>>,
      <<<<"e", "m", "s", "p", ";">>, <<"8195">>>>, <<<<"e", "n", "g", ";">>, <<"331">>>>,
      <<<<"e", "n", "s", "p", ";">>, <<"8194">>>>,
      <<<<"e", "o", "g", "o", "n", ";">>, <<"281">>>>,
      <<<<"e", "o", "p", "f", ";">>, <<"120150">>>>, <<<<"e", "p", "a", "r", ";">>, <<"⋕">>>>,
      <<<<"e", "p", "a", "r", "s", "l", ";">>, <<"⧣">>>>,
      <<<<"e", "p", "l", "u", "s", ";">>, <<"10865">>>>,
      <<<<"e", "p", "s", "i", ";">>, <<"ε">>>>,
      <<<<"e", "p", "s", "i", "l", "o", "n", ";">>, <<"ε">>>>,
      <<<<"e", "p", "s", "i", "v", ";">>, <<"ϵ">>>>,
      <<<<"e", "q", "c", "i", "r", "c", ";">>, <<"8790">>>>,
      <<<<"e", "q", "c", "o", "l", "o", "n", ";">>, <<"8789">>>>,
      <<<<"e", "q", "s", "i", "m", ";">>, <<"8770">>>>,
      <<<<"e", "q", "s", "l", "a", "n", "t", "g", "t", "r", ";">>, <<"⪖">>>>,
      <<<<"e", "q", "s", "l", "a", "n", "t", "l", "e", "s", "s", ";">>, <<"⪕">>>>,
      <<<<"e", "q", "u", "a", "l", "s", ";">>, <<"=">>>>,
      <<<<"e", "q", "u", "e", "s", "t", ";">>, <<"8799">>>>,
      <<<<"e", "q", "u", "i", "v", ";">>, <<"8801">>>>,
      <<<<"e", "q", "u", "i", "v", "D", "D", ";">>, <<"10872">>>>,
      <<<<"e", "q", "v", "p", "a", "r", "s", "l", ";">>, <<"⧥">>>>,
      <<<<"e", "r", "D", "o", "t", ";">>, <<"8787">>>>,
      <<<<"e", "r", "a", "r", "r", ";">>, <<"10609">>>>,
      <<<<"e", "s", "c", "r", ";">>, <<"8495">>>>,
      <<<<"e", "s", "d", "o", "t", ";">>, <<"8784">>>>,
      <<<<"e", "s", "i", "m", ";">>, <<"8770">>>>, <<<<"e", "t", "a", ";">>, <<"η">>>>,
      <<<<"e", "t", "h">>, <<"ð">>>>, <<<<"e", "t", "h", ";">>, <<"ð">>>>,
      <<<<"e", "u", "m", "l">>, <<"ë">>>>, <<<<"e", "u", "m", "l", ";">>, <<"ë">>>>,
      <<<<"e", "u", "r", "o", ";">>, <<"€">>>>, <<<<"e", "x", "c", "l", ";">>, <<"!">>>>,
      <<<<"e", "x", "i", "s", "t", ";">>, <<"8707">>>>,
      <<<<"e", "x", "p", "e", "c", "t", "a", "t", "i", "o", "n", ";">>, <<"8496">>>>,
      <<<<"e", "x", "p", "o", "n", "e", "n", "t", "i", "a", "l", "e", ";">>, <<"8519">>>>,
      <<<<"f", "a", "l", "l", "i", "n", "g", "d", "o", "t", "s", "e", "q", ";">>, <<"8786">>>>,
      <<<<"f", "c", "y", ";">>, <<"1092">>>>,
      <<<<"f", "e", "m", "a", "l", "e", ";">>, <<"9792">>>>,
      <<<<"f", "f", "i", "l", "i", "g", ";">>, <<"64259">>>>,
      <<<<"f", "f", "l", "i", "g", ";">>, <<"64256">>>>,
      <<<<"f", "f", "l", "l", "i", "g", ";">>, <<"64260">>>>,
      <<<<"f", "f", "r", ";">>, <<"120099">>>>,
      <<<<"f", "i", "l", "i", "g", ";">>, <<"64257">>>>,
      <<<<"f", "j", "l", "i", "g", ";">>, <<"f", "j">>>>,
      <<<<"f", "l", "a", "t", ";">>, <<"9837">>>>,
      <<<<"f", "l", "l", "i", "g", ";">>, <<"64258">>>>,
      <<<<"f", "l", "t", "n", "s", ";">>, <<"▱">>>>, <<<<"f", "n", "o", "f", ";">>, <<"ƒ">>>>,
      <<<<"f", "o", "p", "f", ";">>, <<"120151">>>>,
      <<<<"f", "o", "r", "a", "l", "l", ";">>, <<"8704">>>>,
      <<<<"f", "o", "r", "k", ";">>, <<"⋔">>>>, <<<<"f", "o", "r", "k", "v", ";">>, <<"⫙">>>>,
      <<<<"f", "p", "a", "r", "t", "i", "n", "t", ";">>, <<"10765">>>>,
      <<<<"f", "r", "a", "c", "1", "2">>, <<"½">>>>,
      <<<<"f", "r", "a", "c", "1", "2", ";">>, <<"½">>>>,
      <<<<"f", "r", "a", "c", "1", "3", ";">>, <<"8531">>>>,
      <<<<"f", "r", "a", "c", "1", "4">>, <<"¼">>>>,
      <<<<"f", "r", "a", "c", "1", "4", ";">>, <<"¼">>>>,
      <<<<"f", "r", "a", "c", "1", "5", ";">>, <<"8533">>>>,
      <<<<"f", "r", "a", "c", "1", "6", ";">>, <<"8537">>>>,
      <<<<"f", "r", "a", "c", "1", "8", ";">>, <<"8539">>>>,
      <<<<"f", "r", "a", "c", "2", "3", ";">>, <<"8532">>>>,
      <<<<"f", "r", "a", "c", "2", "5", ";">>, <<"8534">>>>,
      <<<<"f", "r", "a", "c", "3", "4">>, <<"¾">>>>,
      <<<<"f", "r", "a", "c", "3", "4", ";">>, <<"¾">>>>,
      <<<<"f", "r", "a", "c", "3", "5", ";">>, <<"8535">>>>,
      <<<<"f", "r", "a", "c", "3", "8", ";">>, <<"8540">>>>,
      <<<<"f", "r", "a", "c", "4", "5", ";">>, <<"8536">>>>,
      <<<<"f", "r", "a", "c", "5", "6", ";">>, <<"8538">>>>,
      <<<<"f", "r", "a", "c", "5", "8", ";">>, <<"8541">>>>,
      <<<<"f", "r", "a", "c", "7", "8", ";">>, <<"8542">>>>,
      <<<<"f", "r", "a", "s", "l", ";">>, <<"8260">>>>,
      <<<<"f", "r", "o", "w", "n", ";">>, <<"8994">>>>,
      <<<<"f", "s", "c", "r", ";">>, <<"119995">>>>, <<<<"g", "E", ";">>, <<"8807">>>>,
      <<<<"g", "E", "l", ";">>, <<"⪌">>>>, <<<<"g", "a", "c", "u", "t", "e", ";">>, <<"ǵ">>>>,
      <<<<"g", "a", "m", "m", "a", ";">>, <<"γ">>>>,
      <<<<"g", "a", "m", "m", "a", "d", ";">>, <<"ϝ">>>>, <<<<"g", "a", "p", ";">>, <<"⪆">>>>,
      <<<<"g", "b", "r", "e", "v", "e", ";">>, <<"287">>>>,
      <<<<"g", "c", "i", "r", "c", ";">>, <<"285">>>>, <<<<"g", "c", "y", ";">>, <<"1075">>>>,
      <<<<"g", "d", "o", "t", ";">>, <<"289">>>>, <<<<"g", "e", ";">>, <<"8805">>>>,
      <<<<"g", "e", "l", ";">>, <<"⋛">>>>, <<<<"g", "e", "q", ";">>, <<"8805">>>>,
      <<<<"g", "e", "q", "q", ";">>, <<"8807">>>>,
      <<<<"g", "e", "q", "s", "l", "a", "n", "t", ";">>, <<"10878">>>>,
      <<<<"g", "e", "s", ";">>, <<"10878">>>>, <<<<"g", "e", "s", "c", "c", ";">>, <<"⪩">>>>,
      <<<<"g", "e", "s", "d", "o", "t", ";">>, <<"⪀">>>>,
      <<<<"g", "e", "s", "d", "o", "t", "o", ";">>, <<"⪂">>>>,
      <<<<"g", "e", "s", "d", "o", "t", "o", "l", ";">>, <<"⪄">>>>,
      <<<<"g", "e", "s", "l", ";">>, <<"⋛", "65024">>>>,
      <<<<"g", "e", "s", "l", "e", "s", ";">>, <<"⪔">>>>,
      <<<<"g", "f", "r", ";">>, <<"120100">>>>, <<<<"g", "g", ";">>, <<"8811">>>>,
      <<<<"g", "g", "g", ";">>, <<"⋙">>>>, <<<<"g", "i", "m", "e", "l", ";">>, <<"8503">>>>,
      <<<<"g", "j", "c", "y", ";">>, <<"1107">>>>, <<<<"g", "l", ";">>, <<"8823">>>>,
      <<<<"g", "l", "E", ";">>, <<"⪒">>>>, <<<<"g", "l", "a", ";">>, <<"⪥">>>>,
      <<<<"g", "l", "j", ";">>, <<"⪤">>>>, <<<<"g", "n", "E", ";">>, <<"8809">>>>,
      <<<<"g", "n", "a", "p", ";">>, <<"⪊">>>>,
      <<<<"g", "n", "a", "p", "p", "r", "o", "x", ";">>, <<"⪊">>>>,
      <<<<"g", "n", "e", ";">>, <<"⪈">>>>, <<<<"g", "n", "e", "q", ";">>, <<"⪈">>>>,
      <<<<"g", "n", "e", "q", "q", ";">>, <<"8809">>>>,
      <<<<"g", "n", "s", "i", "m", ";">>, <<"⋧">>>>,
      <<<<"g", "o", "p", "f", ";">>, <<"120152">>>>,
      <<<<"g", "r", "a", "v", "e", ";">>, <<"96">>>>,
      <<<<"g", "s", "c", "r", ";">>, <<"8458">>>>, <<<<"g", "s", "i", "m", ";">>, <<"8819">>>>,
      <<<<"g", "s", "i", "m", "e", ";">>, <<"⪎">>>>,
      <<<<"g", "s", "i", "m", "l", ";">>, <<"⪐">>>>, <<<<"g", "t">>, <<">">>>>,
      <<<<"g", "t", ";">>, <<">">>>>, <<<<"g", "t", "c", "c", ";">>, <<"⪧">>>>,
      <<<<"g", "t", "c", "i", "r", ";">>, <<"10874">>>>,
      <<<<"g", "t", "d", "o", "t", ";">>, <<"⋗">>>>,
      <<<<"g", "t", "l", "P", "a", "r", ";">>, <<"⦕">>>>,
      <<<<"g", "t", "q", "u", "e", "s", "t", ";">>, <<"10876">>>>,
      <<<<"g", "t", "r", "a", "p", "p", "r", "o", "x", ";">>, <<"⪆">>>>,
      <<<<"g", "t", "r", "a", "r", "r", ";">>, <<"10616">>>>,
      <<<<"g", "t", "r", "d", "o", "t", ";">>, <<"⋗">>>>,
      <<<<"g", "t", "r", "e", "q", "l", "e", "s", "s", ";">>, <<"⋛">>>>,
      <<<<"g", "t", "r", "e", "q", "q", "l", "e", "s", "s", ";">>, <<"⪌">>>>,
      <<<<"g", "t", "r", "l", "e", "s", "s", ";">>, <<"8823">>>>,
      <<<<"g", "t", "r", "s", "i", "m", ";">>, <<"8819">>>>,
      <<<<"g", "v", "e", "r", "t", "n", "e", "q", "q", ";">>, <<"8809", "65024">>>>,
      <<<<"g", "v", "n", "E", ";">>, <<"8809", "65024">>>>,
      <<<<"h", "A", "r", "r", ";">>, <<"⇔">>>>,
      <<<<"h", "a", "i", "r", "s", "p", ";">>, <<"8202">>>>,
      <<<<"h", "a", "l", "f", ";">>, <<"½">>>>,
      <<<<"h", "a", "m", "i", "l", "t", ";">>, <<"8459">>>>,
      <<<<"h", "a", "r", "d", "c", "y", ";">>, <<"1098">>>>,
      <<<<"h", "a", "r", "r", ";">>, <<"↔">>>>,
      <<<<"h", "a", "r", "r", "c", "i", "r", ";">>, <<"10568">>>>,
      <<<<"h", "a", "r", "r", "w", ";">>, <<"↭">>>>,
      <<<<"h", "b", "a", "r", ";">>, <<"8463">>>>,
      <<<<"h", "c", "i", "r", "c", ";">>, <<"293">>>>,
      <<<<"h", "e", "a", "r", "t", "s", ";">>, <<"9829">>>>,
      <<<<"h", "e", "a", "r", "t", "s", "u", "i", "t", ";">>, <<"9829">>>>,
      <<<<"h", "e", "l", "l", "i", "p", ";">>, <<"8230">>>>,
      <<<<"h", "e", "r", "c", "o", "n", ";">>, <<"⊹">>>>,
      <<<<"h", "f", "r", ";">>, <<"120101">>>>,
      <<<<"h", "k", "s", "e", "a", "r", "o", "w", ";">>, <<"10533">>>>,
      <<<<"h", "k", "s", "w", "a", "r", "o", "w", ";">>, <<"10534">>>>,
      <<<<"h", "o", "a", "r", "r", ";">>, <<"⇿">>>>,
      <<<<"h", "o", "m", "t", "h", "t", ";">>, <<"8763">>>>,
      <<<<"h", "o", "o", "k", "l", "e", "f", "t", "a", "r", "r", "o", "w", ";">>, <<"↩">>>>,
      <<<<"h", "o", "o", "k", "r", "i", "g", "h", "t", "a", "r", "r", "o", "w", ";">>, <<"↪">>>>,
      <<<<"h", "o", "p", "f", ";">>, <<"120153">>>>,
      <<<<"h", "o", "r", "b", "a", "r", ";">>, <<"8213">>>>,
      <<<<"h", "s", "c", "r", ";">>, <<"119997">>>>,
      <<<<"h", "s", "l", "a", "s", "h", ";">>, <<"8463">>>>,
      <<<<"h", "s", "t", "r", "o", "k", ";">>, <<"295">>>>,
      <<<<"h", "y", "b", "u", "l", "l", ";">>, <<"8259">>>>,
      <<<<"h", "y", "p", "h", "e", "n", ";">>, <<"8208">>>>,
      <<<<"i", "a", "c", "u", "t", "e">>, <<"í">>>>,
      <<<<"i", "a", "c", "u", "t", "e", ";">>, <<"í">>>>, <<<<"i", "c", ";">>, <<"8291">>>>,
      <<<<"i", "c", "i", "r", "c">>, <<"î">>>>, <<<<"i", "c", "i", "r", "c", ";">>, <<"î">>>>,
      <<<<"i", "c", "y", ";">>, <<"1080">>>>, <<<<"i", "e", "c", "y", ";">>, <<"1077">>>>,
      <<<<"i", "e", "x", "c", "l">>, <<"¡">>>>, <<<<"i", "e", "x", "c", "l", ";">>, <<"¡">>>>,
      <<<<"i", "f", "f", ";">>, <<"⇔">>>>, <<<<"i", "f", "r", ";">>, <<"120102">>>>,
      <<<<"i", "g", "r", "a", "v", "e">>, <<"ì">>>>,
      <<<<"i", "g", "r", "a", "v", "e", ";">>, <<"ì">>>>, <<<<"i", "i", ";">>, <<"8520">>>>,
      <<<<"i", "i", "i", "i", "n", "t", ";">>, <<"10764">>>>,
      <<<<"i", "i", "i", "n", "t", ";">>, <<"8749">>>>,
      <<<<"i", "i", "n", "f", "i", "n", ";">>, <<"⧜">>>>,
      <<<<"i", "i", "o", "t", "a", ";">>, <<"8489">>>>,
      <<<<"i", "j", "l", "i", "g", ";">>, <<"307">>>>,
      <<<<"i", "m", "a", "c", "r", ";">>, <<"299">>>>,
      <<<<"i", "m", "a", "g", "e", ";">>, <<"8465">>>>,
      <<<<"i", "m", "a", "g", "l", "i", "n", "e", ";">>, <<"8464">>>>,
      <<<<"i", "m", "a", "g", "p", "a", "r", "t", ";">>, <<"8465">>>>,
      <<<<"i", "m", "a", "t", "h", ";">>, <<"305">>>>,
      <<<<"i", "m", "o", "f", ";">>, <<"⊷">>>>, <<<<"i", "m", "p", "e", "d", ";">>, <<"Ƶ">>>>,
      <<<<"i", "n", ";">>, <<"8712">>>>, <<<<"i", "n", "c", "a", "r", "e", ";">>, <<"8453">>>>,
      <<<<"i", "n", "f", "i", "n", ";">>, <<"8734">>>>,
      <<<<"i", "n", "f", "i", "n", "t", "i", "e", ";">>, <<"⧝">>>>,
      <<<<"i", "n", "o", "d", "o", "t", ";">>, <<"305">>>>,
      <<<<"i", "n", "t", ";">>, <<"8747">>>>,
      <<<<"i", "n", "t", "c", "a", "l", ";">>, <<"⊺">>>>,
      <<<<"i", "n", "t", "e", "g", "e", "r", "s", ";">>, <<"8484">>>>,
      <<<<"i", "n", "t", "e", "r", "c", "a", "l", ";">>, <<"⊺">>>>,
      <<<<"i", "n", "t", "l", "a", "r", "h", "k", ";">>, <<"10775">>>>,
      <<<<"i", "n", "t", "p", "r", "o", "d", ";">>, <<"10812">>>>,
      <<<<"i", "o", "c", "y", ";">>, <<"1105">>>>,
      <<<<"i", "o", "g", "o", "n", ";">>, <<"303">>>>,
      <<<<"i", "o", "p", "f", ";">>, <<"120154">>>>, <<<<"i", "o", "t", "a", ";">>, <<"ι">>>>,
      <<<<"i", "p", "r", "o", "d", ";">>, <<"10812">>>>,
      <<<<"i", "q", "u", "e", "s", "t">>, <<"¿">>>>,
      <<<<"i", "q", "u", "e", "s", "t", ";">>, <<"¿">>>>,
      <<<<"i", "s", "c", "r", ";">>, <<"119998">>>>,
      <<<<"i", "s", "i", "n", ";">>, <<"8712">>>>,
      <<<<"i", "s", "i", "n", "E", ";">>, <<"⋹">>>>,
      <<<<"i", "s", "i", "n", "d", "o", "t", ";">>, <<"⋵">>>>,
      <<<<"i", "s", "i", "n", "s", ";">>, <<"⋴">>>>,
      <<<<"i", "s", "i", "n", "s", "v", ";">>, <<"⋳">>>>,
      <<<<"i", "s", "i", "n", "v", ";">>, <<"8712">>>>, <<<<"i", "t", ";">>, <<"8290">>>>,
      <<<<"i", "t", "i", "l", "d", "e", ";">>, <<"297">>>>,
      <<<<"i", "u", "k", "c", "y", ";">>, <<"1110">>>>, <<<<"i", "u", "m", "l">>, <<"ï">>>>,
      <<<<"i", "u", "m", "l", ";">>, <<"ï">>>>,
      <<<<"j", "c", "i", "r", "c", ";">>, <<"309">>>>, <<<<"j", "c", "y", ";">>, <<"1081">>>>,
      <<<<"j", "f", "r", ";">>, <<"120103">>>>,
      <<<<"j", "m", "a", "t", "h", ";">>, <<"567">>>>,
      <<<<"j", "o", "p", "f", ";">>, <<"120155">>>>,
      <<<<"j", "s", "c", "r", ";">>, <<"119999">>>>,
      <<<<"j", "s", "e", "r", "c", "y", ";">>, <<"1112">>>>,
      <<<<"j", "u", "k", "c", "y", ";">>, <<"1108">>>>,
      <<<<"k", "a", "p", "p", "a", ";">>, <<"κ">>>>,
      <<<<"k", "a", "p", "p", "a", "v", ";">>, <<"ϰ">>>>,
      <<<<"k", "c", "e", "d", "i", "l", ";">>, <<"311">>>>,
      <<<<"k", "c", "y", ";">>, <<"1082">>>>, <<<<"k", "f", "r", ";">>, <<"120104">>>>,
      <<<<"k", "g", "r", "e", "e", "n", ";">>, <<"312">>>>,
      <<<<"k", "h", "c", "y", ";">>, <<"1093">>>>, <<<<"k", "j", "c", "y", ";">>, <<"1116">>>>,
      <<<<"k", "o", "p", "f", ";">>, <<"120156">>>>,
      <<<<"k", "s", "c", "r", ";">>, <<"120000">>>>,
      <<<<"l", "A", "a", "r", "r", ";">>, <<"⇚">>>>, <<<<"l", "A", "r", "r", ";">>, <<"⇐">>>>,
      <<<<"l", "A", "t", "a", "i", "l", ";">>, <<"10523">>>>,
      <<<<"l", "B", "a", "r", "r", ";">>, <<"10510">>>>, <<<<"l", "E", ";">>, <<"8806">>>>,
      <<<<"l", "E", "g", ";">>, <<"⪋">>>>, <<<<"l", "H", "a", "r", ";">>, <<"10594">>>>,
      <<<<"l", "a", "c", "u", "t", "e", ";">>, <<"314">>>>,
      <<<<"l", "a", "e", "m", "p", "t", "y", "v", ";">>, <<"⦴">>>>,
      <<<<"l", "a", "g", "r", "a", "n", ";">>, <<"8466">>>>,
      <<<<"l", "a", "m", "b", "d", "a", ";">>, <<"λ">>>>,
      <<<<"l", "a", "n", "g", ";">>, <<"⟨">>>>, <<<<"l", "a", "n", "g", "d", ";">>, <<"⦑">>>>,
      <<<<"l", "a", "n", "g", "l", "e", ";">>, <<"⟨">>>>, <<<<"l", "a", "p", ";">>, <<"⪅">>>>,
      <<<<"l", "a", "q", "u", "o">>, <<"«">>>>, <<<<"l", "a", "q", "u", "o", ";">>, <<"«">>>>,
      <<<<"l", "a", "r", "r", ";">>, <<"←">>>>, <<<<"l", "a", "r", "r", "b", ";">>, <<"⇤">>>>,
      <<<<"l", "a", "r", "r", "b", "f", "s", ";">>, <<"10527">>>>,
      <<<<"l", "a", "r", "r", "f", "s", ";">>, <<"10525">>>>,
      <<<<"l", "a", "r", "r", "h", "k", ";">>, <<"↩">>>>,
      <<<<"l", "a", "r", "r", "l", "p", ";">>, <<"↫">>>>,
      <<<<"l", "a", "r", "r", "p", "l", ";">>, <<"10553">>>>,
      <<<<"l", "a", "r", "r", "s", "i", "m", ";">>, <<"10611">>>>,
      <<<<"l", "a", "r", "r", "t", "l", ";">>, <<"↢">>>>, <<<<"l", "a", "t", ";">>, <<"⪫">>>>,
      <<<<"l", "a", "t", "a", "i", "l", ";">>, <<"10521">>>>,
      <<<<"l", "a", "t", "e", ";">>, <<"⪭">>>>,
      <<<<"l", "a", "t", "e", "s", ";">>, <<"⪭", "65024">>>>,
      <<<<"l", "b", "a", "r", "r", ";">>, <<"10508">>>>,
      <<<<"l", "b", "b", "r", "k", ";">>, <<"10098">>>>,
      <<<<"l", "b", "r", "a", "c", "e", ";">>, <<"{">>>>,
      <<<<"l", "b", "r", "a", "c", "k", ";">>, <<"[">>>>,
      <<<<"l", "b", "r", "k", "e", ";">>, <<"⦋">>>>,
      <<<<"l", "b", "r", "k", "s", "l", "d", ";">>, <<"⦏">>>>,
      <<<<"l", "b", "r", "k", "s", "l", "u", ";">>, <<"⦍">>>>,
      <<<<"l", "c", "a", "r", "o", "n", ";">>, <<"318">>>>,
      <<<<"l", "c", "e", "d", "i", "l", ";">>, <<"316">>>>,
      <<<<"l", "c", "e", "i", "l", ";">>, <<"8968">>>>,
      <<<<"l", "c", "u", "b", ";">>, <<"{">>>>, <<<<"l", "c", "y", ";">>, <<"1083">>>>,
      <<<<"l", "d", "c", "a", ";">>, <<"10550">>>>,
      <<<<"l", "d", "q", "u", "o", ";">>, <<"8220">>>>,
      <<<<"l", "d", "q", "u", "o", "r", ";">>, <<"8222">>>>,
      <<<<"l", "d", "r", "d", "h", "a", "r", ";">>, <<"10599">>>>,
      <<<<"l", "d", "r", "u", "s", "h", "a", "r", ";">>, <<"10571">>>>,
      <<<<"l", "d", "s", "h", ";">>, <<"↲">>>>, <<<<"l", "e", ";">>, <<"8804">>>>,
      <<<<"l", "e", "f", "t", "a", "r", "r", "o", "w", ";">>, <<"←">>>>,
      <<<<"l", "e", "f", "t", "a", "r", "r", "o", "w", "t", "a", "i", "l", ";">>, <<"↢">>>>,
      <<<<"l", "e", "f", "t", "h", "a", "r", "p", "o", "o", "n", "d", "o", "w", "n", ";">>, <<"↽">>>>,
      <<<<"l", "e", "f", "t", "h", "a", "r", "p", "o", "o", "n", "u", "p", ";">>, <<"↼">>>>,
      <<<<"l", "e", "f", "t", "l", "e", "f", "t", "a", "r", "r", "o", "w", "s", ";">>, <<"⇇">>>>,
      <<<<"l", "e", "f", "t", "r", "i", "g", "h", "t", "a", "r", "r", "o", "w", ";">>, <<"↔">>>>,
      <<<<"l", "e", "f", "t", "r", "i", "g", "h", "t", "a", "r", "r", "o", "w", "s", ";">>, <<"⇆">>>>,
      <<<<"l", "e", "f", "t", "r", "i", "g", "h", "t", "h", "a", "r", "p", "o", "o", "n", "s", ";">>, <<"⇋">>>>,
      <<<<"l", "e", "f", "t", "r", "i", "g", "h", "t", "s", "q", "u", "i", "g", "a", "r", "r", "o", "w", ";">>, <<"↭">>>>,
      <<<<"l", "e", "f", "t", "t", "h", "r", "e", "e", "t", "i", "m", "e", "s", ";">>, <<"⋋">>>>,
      <<<<"l", "e", "g", ";">>, <<"⋚">>>>, <<<<"l", "e", "q", ";">>, <<"8804">>>>,
      <<<<"l", "e", "q", "q", ";">>, <<"8806">>>>,
      <<<<"l", "e", "q", "s", "l", "a", "n", "t", ";">>, <<"10877">>>>,
      <<<<"l", "e", "s", ";">>, <<"10877">>>>, <<<<"l", "e", "s", "c", "c", ";">>, <<"⪨">>>>,
      <<<<"l", "e", "s", "d", "o", "t", ";">>, <<"10879">>>>,
      <<<<"l", "e", "s", "d", "o", "t", "o", ";">>, <<"⪁">>>>,
      <<<<"l", "e", "s", "d", "o", "t", "o", "r", ";">>, <<"⪃">>>>,
      <<<<"l", "e", "s", "g", ";">>, <<"⋚", "65024">>>>,
      <<<<"l", "e", "s", "g", "e", "s", ";">>, <<"⪓">>>>,
      <<<<"l", "e", "s", "s", "a", "p", "p", "r", "o", "x", ";">>, <<"⪅">>>>,
      <<<<"l", "e", "s", "s", "d", "o", "t", ";">>, <<"⋖">>>>,
      <<<<"l", "e", "s", "s", "e", "q", "g", "t", "r", ";">>, <<"⋚">>>>,
      <<<<"l", "e", "s", "s", "e", "q", "q", "g", "t", "r", ";">>, <<"⪋">>>>,
      <<<<"l", "e", "s", "s", "g", "t", "r", ";">>, <<"8822">>>>,
      <<<<"l", "e", "s", "s", "s", "i", "m", ";">>, <<"8818">>>>,
      <<<<"l", "f", "i", "s", "h", "t", ";">>, <<"10620">>>>,
      <<<<"l", "f", "l", "o", "o", "r", ";">>, <<"8970">>>>,
      <<<<"l", "f", "r", ";">>, <<"120105">>>>, <<<<"l", "g", ";">>, <<"8822">>>>,
      <<<<"l", "g", "E", ";">>, <<"⪑">>>>, <<<<"l", "h", "a", "r", "d", ";">>, <<"↽">>>>,
      <<<<"l", "h", "a", "r", "u", ";">>, <<"↼">>>>,
      <<<<"l", "h", "a", "r", "u", "l", ";">>, <<"10602">>>>,
      <<<<"l", "h", "b", "l", "k", ";">>, <<"▄">>>>,
      <<<<"l", "j", "c", "y", ";">>, <<"1113">>>>, <<<<"l", "l", ";">>, <<"8810">>>>,
      <<<<"l", "l", "a", "r", "r", ";">>, <<"⇇">>>>,
      <<<<"l", "l", "c", "o", "r", "n", "e", "r", ";">>, <<"8990">>>>,
      <<<<"l", "l", "h", "a", "r", "d", ";">>, <<"10603">>>>,
      <<<<"l", "l", "t", "r", "i", ";">>, <<"◺">>>>,
      <<<<"l", "m", "i", "d", "o", "t", ";">>, <<"320">>>>,
      <<<<"l", "m", "o", "u", "s", "t", ";">>, <<"⎰">>>>,
      <<<<"l", "m", "o", "u", "s", "t", "a", "c", "h", "e", ";">>, <<"⎰">>>>,
      <<<<"l", "n", "E", ";">>, <<"8808">>>>, <<<<"l", "n", "a", "p", ";">>, <<"⪉">>>>,
      <<<<"l", "n", "a", "p", "p", "r", "o", "x", ";">>, <<"⪉">>>>,
      <<<<"l", "n", "e", ";">>, <<"⪇">>>>, <<<<"l", "n", "e", "q", ";">>, <<"⪇">>>>,
      <<<<"l", "n", "e", "q", "q", ";">>, <<"8808">>>>,
      <<<<"l", "n", "s", "i", "m", ";">>, <<"⋦">>>>,
      <<<<"l", "o", "a", "n", "g", ";">>, <<"⟬">>>>,
      <<<<"l", "o", "a", "r", "r", ";">>, <<"⇽">>>>,
      <<<<"l", "o", "b", "r", "k", ";">>, <<"⟦">>>>,
      <<<<"l", "o", "n", "g", "l", "e", "f", "t", "a", "r", "r", "o", "w", ";">>, <<"⟵">>>>,
      <<<<"l", "o", "n", "g", "l", "e", "f", "t", "r", "i", "g", "h", "t", "a", "r", "r", "o", "w", ";">>, <<"⟷">>>>,
      <<<<"l", "o", "n", "g", "m", "a", "p", "s", "t", "o", ";">>, <<"⟼">>>>,
      <<<<"l", "o", "n", "g", "r", "i", "g", "h", "t", "a", "r", "r", "o", "w", ";">>, <<"⟶">>>>,
      <<<<"l", "o", "o", "p", "a", "r", "r", "o", "w", "l", "e", "f", "t", ";">>, <<"↫">>>>,
      <<<<"l", "o", "o", "p", "a", "r", "r", "o", "w", "r", "i", "g", "h", "t", ";">>, <<"↬">>>>,
      <<<<"l", "o", "p", "a", "r", ";">>, <<"⦅">>>>,
      <<<<"l", "o", "p", "f", ";">>, <<"120157">>>>,
      <<<<"l", "o", "p", "l", "u", "s", ";">>, <<"10797">>>>,
      <<<<"l", "o", "t", "i", "m", "e", "s", ";">>, <<"10804">>>>,
      <<<<"l", "o", "w", "a", "s", "t", ";">>, <<"8727">>>>,
      <<<<"l", "o", "w", "b", "a", "r", ";">>, <<"_">>>>, <<<<"l", "o", "z", ";">>, <<"◊">>>>,
      <<<<"l", "o", "z", "e", "n", "g", "e", ";">>, <<"◊">>>>,
      <<<<"l", "o", "z", "f", ";">>, <<"⧫">>>>, <<<<"l", "p", "a", "r", ";">>, <<"(">>>>,
      <<<<"l", "p", "a", "r", "l", "t", ";">>, <<"⦓">>>>,
      <<<<"l", "r", "a", "r", "r", ";">>, <<"⇆">>>>,
      <<<<"l", "r", "c", "o", "r", "n", "e", "r", ";">>, <<"8991">>>>,
      <<<<"l", "r", "h", "a", "r", ";">>, <<"⇋">>>>,
      <<<<"l", "r", "h", "a", "r", "d", ";">>, <<"10605">>>>,
      <<<<"l", "r", "m", ";">>, <<"8206">>>>, <<<<"l", "r", "t", "r", "i", ";">>, <<"⊿">>>>,
      <<<<"l", "s", "a", "q", "u", "o", ";">>, <<"8249">>>>,
      <<<<"l", "s", "c", "r", ";">>, <<"120001">>>>, <<<<"l", "s", "h", ";">>, <<"↰">>>>,
      <<<<"l", "s", "i", "m", ";">>, <<"8818">>>>,
      <<<<"l", "s", "i", "m", "e", ";">>, <<"⪍">>>>,
      <<<<"l", "s", "i", "m", "g", ";">>, <<"⪏">>>>, <<<<"l", "s", "q", "b", ";">>, <<"[">>>>,
      <<<<"l", "s", "q", "u", "o", ";">>, <<"8216">>>>,
      <<<<"l", "s", "q", "u", "o", "r", ";">>, <<"8218">>>>,
      <<<<"l", "s", "t", "r", "o", "k", ";">>, <<"322">>>>, <<<<"l", "t">>, <<"<">>>>,
      <<<<"l", "t", ";">>, <<"<">>>>, <<<<"l", "t", "c", "c", ";">>, <<"⪦">>>>,
      <<<<"l", "t", "c", "i", "r", ";">>, <<"10873">>>>,
      <<<<"l", "t", "d", "o", "t", ";">>, <<"⋖">>>>,
      <<<<"l", "t", "h", "r", "e", "e", ";">>, <<"⋋">>>>,
      <<<<"l", "t", "i", "m", "e", "s", ";">>, <<"⋉">>>>,
      <<<<"l", "t", "l", "a", "r", "r", ";">>, <<"10614">>>>,
      <<<<"l", "t", "q", "u", "e", "s", "t", ";">>, <<"10875">>>>,
      <<<<"l", "t", "r", "P", "a", "r", ";">>, <<"⦖">>>>,
      <<<<"l", "t", "r", "i", ";">>, <<"◃">>>>, <<<<"l", "t", "r", "i", "e", ";">>, <<"⊴">>>>,
      <<<<"l", "t", "r", "i", "f", ";">>, <<"◂">>>>,
      <<<<"l", "u", "r", "d", "s", "h", "a", "r", ";">>, <<"10570">>>>,
      <<<<"l", "u", "r", "u", "h", "a", "r", ";">>, <<"10598">>>>,
      <<<<"l", "v", "e", "r", "t", "n", "e", "q", "q", ";">>, <<"8808", "65024">>>>,
      <<<<"l", "v", "n", "E", ";">>, <<"8808", "65024">>>>,
      <<<<"m", "D", "D", "o", "t", ";">>, <<"8762">>>>, <<<<"m", "a", "c", "r">>, <<"¯">>>>,
      <<<<"m", "a", "c", "r", ";">>, <<"¯">>>>, <<<<"m", "a", "l", "e", ";">>, <<"9794">>>>,
      <<<<"m", "a", "l", "t", ";">>, <<"10016">>>>,
      <<<<"m", "a", "l", "t", "e", "s", "e", ";">>, <<"10016">>>>,
      <<<<"m", "a", "p", ";">>, <<"↦">>>>, <<<<"m", "a", "p", "s", "t", "o", ";">>, <<"↦">>>>,
      <<<<"m", "a", "p", "s", "t", "o", "d", "o", "w", "n", ";">>, <<"↧">>>>,
      <<<<"m", "a", "p", "s", "t", "o", "l", "e", "f", "t", ";">>, <<"↤">>>>,
      <<<<"m", "a", "p", "s", "t", "o", "u", "p", ";">>, <<"↥">>>>,
      <<<<"m", "a", "r", "k", "e", "r", ";">>, <<"▮">>>>,
      <<<<"m", "c", "o", "m", "m", "a", ";">>, <<"10793">>>>,
      <<<<"m", "c", "y", ";">>, <<"1084">>>>, <<<<"m", "d", "a", "s", "h", ";">>, <<"8212">>>>,
      <<<<"m", "e", "a", "s", "u", "r", "e", "d", "a", "n", "g", "l", "e", ";">>, <<"8737">>>>,
      <<<<"m", "f", "r", ";">>, <<"120106">>>>, <<<<"m", "h", "o", ";">>, <<"8487">>>>,
      <<<<"m", "i", "c", "r", "o">>, <<"µ">>>>, <<<<"m", "i", "c", "r", "o", ";">>, <<"µ">>>>,
      <<<<"m", "i", "d", ";">>, <<"8739">>>>,
      <<<<"m", "i", "d", "a", "s", "t", ";">>, <<"*">>>>,
      <<<<"m", "i", "d", "c", "i", "r", ";">>, <<"⫰">>>>,
      <<<<"m", "i", "d", "d", "o", "t">>, <<"·">>>>,
      <<<<"m", "i", "d", "d", "o", "t", ";">>, <<"·">>>>,
      <<<<"m", "i", "n", "u", "s", ";">>, <<"8722">>>>,
      <<<<"m", "i", "n", "u", "s", "b", ";">>, <<"⊟">>>>,
      <<<<"m", "i", "n", "u", "s", "d", ";">>, <<"8760">>>>,
      <<<<"m", "i", "n", "u", "s", "d", "u", ";">>, <<"10794">>>>,
      <<<<"m", "l", "c", "p", ";">>, <<"⫛">>>>, <<<<"m", "l", "d", "r", ";">>, <<"8230">>>>,
      <<<<"m", "n", "p", "l", "u", "s", ";">>, <<"8723">>>>,
      <<<<"m", "o", "d", "e", "l", "s", ";">>, <<"⊧">>>>,
      <<<<"m", "o", "p", "f", ";">>, <<"120158">>>>, <<<<"m", "p", ";">>, <<"8723">>>>,
      <<<<"m", "s", "c", "r", ";">>, <<"120002">>>>,
      <<<<"m", "s", "t", "p", "o", "s", ";">>, <<"8766">>>>, <<<<"m", "u", ";">>, <<"μ">>>>,
      <<<<"m", "u", "l", "t", "i", "m", "a", "p", ";">>, <<"⊸">>>>,
      <<<<"m", "u", "m", "a", "p", ";">>, <<"⊸">>>>,
      <<<<"n", "G", "g", ";">>, <<"⋙", "824">>>>, <<<<"n", "G", "t", ";">>, <<"8811", "⃒">>>>,
      <<<<"n", "G", "t", "v", ";">>, <<"8811", "824">>>>,
      <<<<"n", "L", "e", "f", "t", "a", "r", "r", "o", "w", ";">>, <<"⇍">>>>,
      <<<<"n", "L", "e", "f", "t", "r", "i", "g", "h", "t", "a", "r", "r", "o", "w", ";">>, <<"⇎">>>>,
      <<<<"n", "L", "l", ";">>, <<"⋘", "824">>>>, <<<<"n", "L", "t", ";">>, <<"8810", "⃒">>>>,
      <<<<"n", "L", "t", "v", ";">>, <<"8810", "824">>>>,
      <<<<"n", "R", "i", "g", "h", "t", "a", "r", "r", "o", "w", ";">>, <<"⇏">>>>,
      <<<<"n", "V", "D", "a", "s", "h", ";">>, <<"⊯">>>>,
      <<<<"n", "V", "d", "a", "s", "h", ";">>, <<"⊮">>>>,
      <<<<"n", "a", "b", "l", "a", ";">>, <<"8711">>>>,
      <<<<"n", "a", "c", "u", "t", "e", ";">>, <<"324">>>>,
      <<<<"n", "a", "n", "g", ";">>, <<"8736", "⃒">>>>, <<<<"n", "a", "p", ";">>, <<"8777">>>>,
      <<<<"n", "a", "p", "E", ";">>, <<"10864", "824">>>>,
      <<<<"n", "a", "p", "i", "d", ";">>, <<"8779", "824">>>>,
      <<<<"n", "a", "p", "o", "s", ";">>, <<"329">>>>,
      <<<<"n", "a", "p", "p", "r", "o", "x", ";">>, <<"8777">>>>,
      <<<<"n", "a", "t", "u", "r", ";">>, <<"9838">>>>,
      <<<<"n", "a", "t", "u", "r", "a", "l", ";">>, <<"9838">>>>,
      <<<<"n", "a", "t", "u", "r", "a", "l", "s", ";">>, <<"8469">>>>,
      <<<<"n", "b", "s", "p">>, <<" ">>>>, <<<<"n", "b", "s", "p", ";">>, <<" ">>>>,
      <<<<"n", "b", "u", "m", "p", ";">>, <<"8782", "824">>>>,
      <<<<"n", "b", "u", "m", "p", "e", ";">>, <<"8783", "824">>>>,
      <<<<"n", "c", "a", "p", ";">>, <<"10819">>>>,
      <<<<"n", "c", "a", "r", "o", "n", ";">>, <<"328">>>>,
      <<<<"n", "c", "e", "d", "i", "l", ";">>, <<"326">>>>,
      <<<<"n", "c", "o", "n", "g", ";">>, <<"8775">>>>,
      <<<<"n", "c", "o", "n", "g", "d", "o", "t", ";">>, <<"10861", "824">>>>,
      <<<<"n", "c", "u", "p", ";">>, <<"10818">>>>, <<<<"n", "c", "y", ";">>, <<"1085">>>>,
      <<<<"n", "d", "a", "s", "h", ";">>, <<"8211">>>>, <<<<"n", "e", ";">>, <<"8800">>>>,
      <<<<"n", "e", "A", "r", "r", ";">>, <<"⇗">>>>,
      <<<<"n", "e", "a", "r", "h", "k", ";">>, <<"10532">>>>,
      <<<<"n", "e", "a", "r", "r", ";">>, <<"↗">>>>,
      <<<<"n", "e", "a", "r", "r", "o", "w", ";">>, <<"↗">>>>,
      <<<<"n", "e", "d", "o", "t", ";">>, <<"8784", "824">>>>,
      <<<<"n", "e", "q", "u", "i", "v", ";">>, <<"8802">>>>,
      <<<<"n", "e", "s", "e", "a", "r", ";">>, <<"10536">>>>,
      <<<<"n", "e", "s", "i", "m", ";">>, <<"8770", "824">>>>,
      <<<<"n", "e", "x", "i", "s", "t", ";">>, <<"8708">>>>,
      <<<<"n", "e", "x", "i", "s", "t", "s", ";">>, <<"8708">>>>,
      <<<<"n", "f", "r", ";">>, <<"120107">>>>, <<<<"n", "g", "E", ";">>, <<"8807", "824">>>>,
      <<<<"n", "g", "e", ";">>, <<"8817">>>>, <<<<"n", "g", "e", "q", ";">>, <<"8817">>>>,
      <<<<"n", "g", "e", "q", "q", ";">>, <<"8807", "824">>>>,
      <<<<"n", "g", "e", "q", "s", "l", "a", "n", "t", ";">>, <<"10878", "824">>>>,
      <<<<"n", "g", "e", "s", ";">>, <<"10878", "824">>>>,
      <<<<"n", "g", "s", "i", "m", ";">>, <<"8821">>>>, <<<<"n", "g", "t", ";">>, <<"8815">>>>,
      <<<<"n", "g", "t", "r", ";">>, <<"8815">>>>,
      <<<<"n", "h", "A", "r", "r", ";">>, <<"⇎">>>>,
      <<<<"n", "h", "a", "r", "r", ";">>, <<"↮">>>>,
      <<<<"n", "h", "p", "a", "r", ";">>, <<"⫲">>>>, <<<<"n", "i", ";">>, <<"8715">>>>,
      <<<<"n", "i", "s", ";">>, <<"⋼">>>>, <<<<"n", "i", "s", "d", ";">>, <<"⋺">>>>,
      <<<<"n", "i", "v", ";">>, <<"8715">>>>, <<<<"n", "j", "c", "y", ";">>, <<"1114">>>>,
      <<<<"n", "l", "A", "r", "r", ";">>, <<"⇍">>>>,
      <<<<"n", "l", "E", ";">>, <<"8806", "824">>>>,
      <<<<"n", "l", "a", "r", "r", ";">>, <<"↚">>>>,
      <<<<"n", "l", "d", "r", ";">>, <<"8229">>>>, <<<<"n", "l", "e", ";">>, <<"8816">>>>,
      <<<<"n", "l", "e", "f", "t", "a", "r", "r", "o", "w", ";">>, <<"↚">>>>,
      <<<<"n", "l", "e", "f", "t", "r", "i", "g", "h", "t", "a", "r", "r", "o", "w", ";">>, <<"↮">>>>,
      <<<<"n", "l", "e", "q", ";">>, <<"8816">>>>,
      <<<<"n", "l", "e", "q", "q", ";">>, <<"8806", "824">>>>,
      <<<<"n", "l", "e", "q", "s", "l", "a", "n", "t", ";">>, <<"10877", "824">>>>,
      <<<<"n", "l", "e", "s", ";">>, <<"10877", "824">>>>,
      <<<<"n", "l", "e", "s", "s", ";">>, <<"8814">>>>,
      <<<<"n", "l", "s", "i", "m", ";">>, <<"8820">>>>, <<<<"n", "l", "t", ";">>, <<"8814">>>>,
      <<<<"n", "l", "t", "r", "i", ";">>, <<"⋪">>>>,
      <<<<"n", "l", "t", "r", "i", "e", ";">>, <<"⋬">>>>,
      <<<<"n", "m", "i", "d", ";">>, <<"8740">>>>,
      <<<<"n", "o", "p", "f", ";">>, <<"120159">>>>, <<<<"n", "o", "t">>, <<"¬">>>>,
      <<<<"n", "o", "t", ";">>, <<"¬">>>>, <<<<"n", "o", "t", "i", "n", ";">>, <<"8713">>>>,
      <<<<"n", "o", "t", "i", "n", "E", ";">>, <<"⋹", "824">>>>,
      <<<<"n", "o", "t", "i", "n", "d", "o", "t", ";">>, <<"⋵", "824">>>>,
      <<<<"n", "o", "t", "i", "n", "v", "a", ";">>, <<"8713">>>>,
      <<<<"n", "o", "t", "i", "n", "v", "b", ";">>, <<"⋷">>>>,
      <<<<"n", "o", "t", "i", "n", "v", "c", ";">>, <<"⋶">>>>,
      <<<<"n", "o", "t", "n", "i", ";">>, <<"8716">>>>,
      <<<<"n", "o", "t", "n", "i", "v", "a", ";">>, <<"8716">>>>,
      <<<<"n", "o", "t", "n", "i", "v", "b", ";">>, <<"⋾">>>>,
      <<<<"n", "o", "t", "n", "i", "v", "c", ";">>, <<"⋽">>>>,
      <<<<"n", "p", "a", "r", ";">>, <<"8742">>>>,
      <<<<"n", "p", "a", "r", "a", "l", "l", "e", "l", ";">>, <<"8742">>>>,
      <<<<"n", "p", "a", "r", "s", "l", ";">>, <<"⫽", "⃥">>>>,
      <<<<"n", "p", "a", "r", "t", ";">>, <<"8706", "824">>>>,
      <<<<"n", "p", "o", "l", "i", "n", "t", ";">>, <<"10772">>>>,
      <<<<"n", "p", "r", ";">>, <<"⊀">>>>, <<<<"n", "p", "r", "c", "u", "e", ";">>, <<"⋠">>>>,
      <<<<"n", "p", "r", "e", ";">>, <<"⪯", "824">>>>,
      <<<<"n", "p", "r", "e", "c", ";">>, <<"⊀">>>>,
      <<<<"n", "p", "r", "e", "c", "e", "q", ";">>, <<"⪯", "824">>>>,
      <<<<"n", "r", "A", "r", "r", ";">>, <<"⇏">>>>,
      <<<<"n", "r", "a", "r", "r", ";">>, <<"↛">>>>,
      <<<<"n", "r", "a", "r", "r", "c", ";">>, <<"10547", "824">>>>,
      <<<<"n", "r", "a", "r", "r", "w", ";">>, <<"↝", "824">>>>,
      <<<<"n", "r", "i", "g", "h", "t", "a", "r", "r", "o", "w", ";">>, <<"↛">>>>,
      <<<<"n", "r", "t", "r", "i", ";">>, <<"⋫">>>>,
      <<<<"n", "r", "t", "r", "i", "e", ";">>, <<"⋭">>>>, <<<<"n", "s", "c", ";">>, <<"⊁">>>>,
      <<<<"n", "s", "c", "c", "u", "e", ";">>, <<"⋡">>>>,
      <<<<"n", "s", "c", "e", ";">>, <<"⪰", "824">>>>,
      <<<<"n", "s", "c", "r", ";">>, <<"120003">>>>,
      <<<<"n", "s", "h", "o", "r", "t", "m", "i", "d", ";">>, <<"8740">>>>,
      <<<<"n", "s", "h", "o", "r", "t", "p", "a", "r", "a", "l", "l", "e", "l", ";">>, <<"8742">>>>,
      <<<<"n", "s", "i", "m", ";">>, <<"8769">>>>,
      <<<<"n", "s", "i", "m", "e", ";">>, <<"8772">>>>,
      <<<<"n", "s", "i", "m", "e", "q", ";">>, <<"8772">>>>,
      <<<<"n", "s", "m", "i", "d", ";">>, <<"8740">>>>,
      <<<<"n", "s", "p", "a", "r", ";">>, <<"8742">>>>,
      <<<<"n", "s", "q", "s", "u", "b", "e", ";">>, <<"⋢">>>>,
      <<<<"n", "s", "q", "s", "u", "p", "e", ";">>, <<"⋣">>>>,
      <<<<"n", "s", "u", "b", ";">>, <<"⊄">>>>,
      <<<<"n", "s", "u", "b", "E", ";">>, <<"⫅", "824">>>>,
      <<<<"n", "s", "u", "b", "e", ";">>, <<"⊈">>>>,
      <<<<"n", "s", "u", "b", "s", "e", "t", ";">>, <<"⊂", "⃒">>>>,
      <<<<"n", "s", "u", "b", "s", "e", "t", "e", "q", ";">>, <<"⊈">>>>,
      <<<<"n", "s", "u", "b", "s", "e", "t", "e", "q", "q", ";">>, <<"⫅", "824">>>>,
      <<<<"n", "s", "u", "c", "c", ";">>, <<"⊁">>>>,
      <<<<"n", "s", "u", "c", "c", "e", "q", ";">>, <<"⪰", "824">>>>,
      <<<<"n", "s", "u", "p", ";">>, <<"⊅">>>>,
      <<<<"n", "s", "u", "p", "E", ";">>, <<"⫆", "824">>>>,
      <<<<"n", "s", "u", "p", "e", ";">>, <<"⊉">>>>,
      <<<<"n", "s", "u", "p", "s", "e", "t", ";">>, <<"⊃", "⃒">>>>,
      <<<<"n", "s", "u", "p", "s", "e", "t", "e", "q", ";">>, <<"⊉">>>>,
      <<<<"n", "s", "u", "p", "s", "e", "t", "e", "q", "q", ";">>, <<"⫆", "824">>>>,
      <<<<"n", "t", "g", "l", ";">>, <<"8825">>>>,
      <<<<"n", "t", "i", "l", "d", "e">>, <<"ñ">>>>,
      <<<<"n", "t", "i", "l", "d", "e", ";">>, <<"ñ">>>>,
      <<<<"n", "t", "l", "g", ";">>, <<"8824">>>>,
      <<<<"n", "t", "r", "i", "a", "n", "g", "l", "e", "l", "e", "f", "t", ";">>, <<"⋪">>>>,
      <<<<"n", "t", "r", "i", "a", "n", "g", "l", "e", "l", "e", "f", "t", "e", "q", ";">>, <<"⋬">>>>,
      <<<<"n", "t", "r", "i", "a", "n", "g", "l", "e", "r", "i", "g", "h", "t", ";">>, <<"⋫">>>>,
      <<<<"n", "t", "r", "i", "a", "n", "g", "l", "e", "r", "i", "g", "h", "t", "e", "q", ";">>, <<"⋭">>>>,
      <<<<"n", "u", ";">>, <<"ν">>>>, <<<<"n", "u", "m", ";">>, <<"#">>>>,
      <<<<"n", "u", "m", "e", "r", "o", ";">>, <<"8470">>>>,
      <<<<"n", "u", "m", "s", "p", ";">>, <<"8199">>>>,
      <<<<"n", "v", "D", "a", "s", "h", ";">>, <<"⊭">>>>,
      <<<<"n", "v", "H", "a", "r", "r", ";">>, <<"10500">>>>,
      <<<<"n", "v", "a", "p", ";">>, <<"8781", "⃒">>>>,
      <<<<"n", "v", "d", "a", "s", "h", ";">>, <<"⊬">>>>,
      <<<<"n", "v", "g", "e", ";">>, <<"8805", "⃒">>>>,
      <<<<"n", "v", "g", "t", ";">>, <<">", "⃒">>>>,
      <<<<"n", "v", "i", "n", "f", "i", "n", ";">>, <<"⧞">>>>,
      <<<<"n", "v", "l", "A", "r", "r", ";">>, <<"10498">>>>,
      <<<<"n", "v", "l", "e", ";">>, <<"8804", "⃒">>>>,
      <<<<"n", "v", "l", "t", ";">>, <<"<", "⃒">>>>,
      <<<<"n", "v", "l", "t", "r", "i", "e", ";">>, <<"⊴", "⃒">>>>,
      <<<<"n", "v", "r", "A", "r", "r", ";">>, <<"10499">>>>,
      <<<<"n", "v", "r", "t", "r", "i", "e", ";">>, <<"⊵", "⃒">>>>,
      <<<<"n", "v", "s", "i", "m", ";">>, <<"8764", "⃒">>>>,
      <<<<"n", "w", "A", "r", "r", ";">>, <<"⇖">>>>,
      <<<<"n", "w", "a", "r", "h", "k", ";">>, <<"10531">>>>,
      <<<<"n", "w", "a", "r", "r", ";">>, <<"↖">>>>,
      <<<<"n", "w", "a", "r", "r", "o", "w", ";">>, <<"↖">>>>,
      <<<<"n", "w", "n", "e", "a", "r", ";">>, <<"10535">>>>, <<<<"o", "S", ";">>, <<"Ⓢ">>>>,
      <<<<"o", "a", "c", "u", "t", "e">>, <<"ó">>>>,
      <<<<"o", "a", "c", "u", "t", "e", ";">>, <<"ó">>>>,
      <<<<"o", "a", "s", "t", ";">>, <<"⊛">>>>, <<<<"o", "c", "i", "r", ";">>, <<"⊚">>>>,
      <<<<"o", "c", "i", "r", "c">>, <<"ô">>>>, <<<<"o", "c", "i", "r", "c", ";">>, <<"ô">>>>,
      <<<<"o", "c", "y", ";">>, <<"1086">>>>, <<<<"o", "d", "a", "s", "h", ";">>, <<"⊝">>>>,
      <<<<"o", "d", "b", "l", "a", "c", ";">>, <<"337">>>>,
      <<<<"o", "d", "i", "v", ";">>, <<"10808">>>>, <<<<"o", "d", "o", "t", ";">>, <<"⊙">>>>,
      <<<<"o", "d", "s", "o", "l", "d", ";">>, <<"⦼">>>>,
      <<<<"o", "e", "l", "i", "g", ";">>, <<"339">>>>,
      <<<<"o", "f", "c", "i", "r", ";">>, <<"⦿">>>>, <<<<"o", "f", "r", ";">>, <<"120108">>>>,
      <<<<"o", "g", "o", "n", ";">>, <<"˛">>>>, <<<<"o", "g", "r", "a", "v", "e">>, <<"ò">>>>,
      <<<<"o", "g", "r", "a", "v", "e", ";">>, <<"ò">>>>, <<<<"o", "g", "t", ";">>, <<"⧁">>>>,
      <<<<"o", "h", "b", "a", "r", ";">>, <<"⦵">>>>, <<<<"o", "h", "m", ";">>, <<"Ω">>>>,
      <<<<"o", "i", "n", "t", ";">>, <<"8750">>>>,
      <<<<"o", "l", "a", "r", "r", ";">>, <<"↺">>>>,
      <<<<"o", "l", "c", "i", "r", ";">>, <<"⦾">>>>,
      <<<<"o", "l", "c", "r", "o", "s", "s", ";">>, <<"⦻">>>>,
      <<<<"o", "l", "i", "n", "e", ";">>, <<"8254">>>>, <<<<"o", "l", "t", ";">>, <<"⧀">>>>,
      <<<<"o", "m", "a", "c", "r", ";">>, <<"333">>>>,
      <<<<"o", "m", "e", "g", "a", ";">>, <<"ω">>>>,
      <<<<"o", "m", "i", "c", "r", "o", "n", ";">>, <<"ο">>>>,
      <<<<"o", "m", "i", "d", ";">>, <<"⦶">>>>,
      <<<<"o", "m", "i", "n", "u", "s", ";">>, <<"⊖">>>>,
      <<<<"o", "o", "p", "f", ";">>, <<"120160">>>>, <<<<"o", "p", "a", "r", ";">>, <<"⦷">>>>,
      <<<<"o", "p", "e", "r", "p", ";">>, <<"⦹">>>>,
      <<<<"o", "p", "l", "u", "s", ";">>, <<"⊕">>>>, <<<<"o", "r", ";">>, <<"8744">>>>,
      <<<<"o", "r", "a", "r", "r", ";">>, <<"↻">>>>, <<<<"o", "r", "d", ";">>, <<"10845">>>>,
      <<<<"o", "r", "d", "e", "r", ";">>, <<"8500">>>>,
      <<<<"o", "r", "d", "e", "r", "o", "f", ";">>, <<"8500">>>>,
      <<<<"o", "r", "d", "f">>, <<"ª">>>>, <<<<"o", "r", "d", "f", ";">>, <<"ª">>>>,
      <<<<"o", "r", "d", "m">>, <<"º">>>>, <<<<"o", "r", "d", "m", ";">>, <<"º">>>>,
      <<<<"o", "r", "i", "g", "o", "f", ";">>, <<"⊶">>>>,
      <<<<"o", "r", "o", "r", ";">>, <<"10838">>>>,
      <<<<"o", "r", "s", "l", "o", "p", "e", ";">>, <<"10839">>>>,
      <<<<"o", "r", "v", ";">>, <<"10843">>>>, <<<<"o", "s", "c", "r", ";">>, <<"8500">>>>,
      <<<<"o", "s", "l", "a", "s", "h">>, <<"ø">>>>,
      <<<<"o", "s", "l", "a", "s", "h", ";">>, <<"ø">>>>,
      <<<<"o", "s", "o", "l", ";">>, <<"⊘">>>>, <<<<"o", "t", "i", "l", "d", "e">>, <<"õ">>>>,
      <<<<"o", "t", "i", "l", "d", "e", ";">>, <<"õ">>>>,
      <<<<"o", "t", "i", "m", "e", "s", ";">>, <<"⊗">>>>,
      <<<<"o", "t", "i", "m", "e", "s", "a", "s", ";">>, <<"10806">>>>,
      <<<<"o", "u", "m", "l">>, <<"ö">>>>, <<<<"o", "u", "m", "l", ";">>, <<"ö">>>>,
      <<<<"o", "v", "b", "a", "r", ";">>, <<"9021">>>>, <<<<"p", "a", "r", ";">>, <<"8741">>>>,
      <<<<"p", "a", "r", "a">>, <<"¶">>>>, <<<<"p", "a", "r", "a", ";">>, <<"¶">>>>,
      <<<<"p", "a", "r", "a", "l", "l", "e", "l", ";">>, <<"8741">>>>,
      <<<<"p", "a", "r", "s", "i", "m", ";">>, <<"⫳">>>>,
      <<<<"p", "a", "r", "s", "l", ";">>, <<"⫽">>>>,
      <<<<"p", "a", "r", "t", ";">>, <<"8706">>>>, <<<<"p", "c", "y", ";">>, <<"1087">>>>,
      <<<<"p", "e", "r", "c", "n", "t", ";">>, <<"%">>>>,
      <<<<"p", "e", "r", "i", "o", "d", ";">>, <<".">>>>,
      <<<<"p", "e", "r", "m", "i", "l", ";">>, <<"8240">>>>,
      <<<<"p", "e", "r", "p", ";">>, <<"⊥">>>>,
      <<<<"p", "e", "r", "t", "e", "n", "k", ";">>, <<"8241">>>>,
      <<<<"p", "f", "r", ";">>, <<"120109">>>>, <<<<"p", "h", "i", ";">>, <<"φ">>>>,
      <<<<"p", "h", "i", "v", ";">>, <<"ϕ">>>>,
      <<<<"p", "h", "m", "m", "a", "t", ";">>, <<"8499">>>>,
      <<<<"p", "h", "o", "n", "e", ";">>, <<"9742">>>>, <<<<"p", "i", ";">>, <<"π">>>>,
      <<<<"p", "i", "t", "c", "h", "f", "o", "r", "k", ";">>, <<"⋔">>>>,
      <<<<"p", "i", "v", ";">>, <<"ϖ">>>>,
      <<<<"p", "l", "a", "n", "c", "k", ";">>, <<"8463">>>>,
      <<<<"p", "l", "a", "n", "c", "k", "h", ";">>, <<"8462">>>>,
      <<<<"p", "l", "a", "n", "k", "v", ";">>, <<"8463">>>>,
      <<<<"p", "l", "u", "s", ";">>, <<"+">>>>,
      <<<<"p", "l", "u", "s", "a", "c", "i", "r", ";">>, <<"10787">>>>,
      <<<<"p", "l", "u", "s", "b", ";">>, <<"⊞">>>>,
      <<<<"p", "l", "u", "s", "c", "i", "r", ";">>, <<"10786">>>>,
      <<<<"p", "l", "u", "s", "d", "o", ";">>, <<"8724">>>>,
      <<<<"p", "l", "u", "s", "d", "u", ";">>, <<"10789">>>>,
      <<<<"p", "l", "u", "s", "e", ";">>, <<"10866">>>>,
      <<<<"p", "l", "u", "s", "m", "n">>, <<"±">>>>,
      <<<<"p", "l", "u", "s", "m", "n", ";">>, <<"±">>>>,
      <<<<"p", "l", "u", "s", "s", "i", "m", ";">>, <<"10790">>>>,
      <<<<"p", "l", "u", "s", "t", "w", "o", ";">>, <<"10791">>>>,
      <<<<"p", "m", ";">>, <<"±">>>>,
      <<<<"p", "o", "i", "n", "t", "i", "n", "t", ";">>, <<"10773">>>>,
      <<<<"p", "o", "p", "f", ";">>, <<"120161">>>>, <<<<"p", "o", "u", "n", "d">>, <<"£">>>>,
      <<<<"p", "o", "u", "n", "d", ";">>, <<"£">>>>, <<<<"p", "r", ";">>, <<"8826">>>>,
      <<<<"p", "r", "E", ";">>, <<"⪳">>>>, <<<<"p", "r", "a", "p", ";">>, <<"⪷">>>>,
      <<<<"p", "r", "c", "u", "e", ";">>, <<"8828">>>>, <<<<"p", "r", "e", ";">>, <<"⪯">>>>,
      <<<<"p", "r", "e", "c", ";">>, <<"8826">>>>,
      <<<<"p", "r", "e", "c", "a", "p", "p", "r", "o", "x", ";">>, <<"⪷">>>>,
      <<<<"p", "r", "e", "c", "c", "u", "r", "l", "y", "e", "q", ";">>, <<"8828">>>>,
      <<<<"p", "r", "e", "c", "e", "q", ";">>, <<"⪯">>>>,
      <<<<"p", "r", "e", "c", "n", "a", "p", "p", "r", "o", "x", ";">>, <<"⪹">>>>,
      <<<<"p", "r", "e", "c", "n", "e", "q", "q", ";">>, <<"⪵">>>>,
      <<<<"p", "r", "e", "c", "n", "s", "i", "m", ";">>, <<"⋨">>>>,
      <<<<"p", "r", "e", "c", "s", "i", "m", ";">>, <<"8830">>>>,
      <<<<"p", "r", "i", "m", "e", ";">>, <<"8242">>>>,
      <<<<"p", "r", "i", "m", "e", "s", ";">>, <<"8473">>>>,
      <<<<"p", "r", "n", "E", ";">>, <<"⪵">>>>, <<<<"p", "r", "n", "a", "p", ";">>, <<"⪹">>>>,
      <<<<"p", "r", "n", "s", "i", "m", ";">>, <<"⋨">>>>,
      <<<<"p", "r", "o", "d", ";">>, <<"8719">>>>,
      <<<<"p", "r", "o", "f", "a", "l", "a", "r", ";">>, <<"9006">>>>,
      <<<<"p", "r", "o", "f", "l", "i", "n", "e", ";">>, <<"8978">>>>,
      <<<<"p", "r", "o", "f", "s", "u", "r", "f", ";">>, <<"8979">>>>,
      <<<<"p", "r", "o", "p", ";">>, <<"8733">>>>,
      <<<<"p", "r", "o", "p", "t", "o", ";">>, <<"8733">>>>,
      <<<<"p", "r", "s", "i", "m", ";">>, <<"8830">>>>,
      <<<<"p", "r", "u", "r", "e", "l", ";">>, <<"⊰">>>>,
      <<<<"p", "s", "c", "r", ";">>, <<"120005">>>>, <<<<"p", "s", "i", ";">>, <<"ψ">>>>,
      <<<<"p", "u", "n", "c", "s", "p", ";">>, <<"8200">>>>,
      <<<<"q", "f", "r", ";">>, <<"120110">>>>, <<<<"q", "i", "n", "t", ";">>, <<"10764">>>>,
      <<<<"q", "o", "p", "f", ";">>, <<"120162">>>>,
      <<<<"q", "p", "r", "i", "m", "e", ";">>, <<"8279">>>>,
      <<<<"q", "s", "c", "r", ";">>, <<"120006">>>>,
      <<<<"q", "u", "a", "t", "e", "r", "n", "i", "o", "n", "s", ";">>, <<"8461">>>>,
      <<<<"q", "u", "a", "t", "i", "n", "t", ";">>, <<"10774">>>>,
      <<<<"q", "u", "e", "s", "t", ";">>, <<"?">>>>,
      <<<<"q", "u", "e", "s", "t", "e", "q", ";">>, <<"8799">>>>,
      <<<<"q", "u", "o", "t">>, <<"\"">>>>, <<<<"q", "u", "o", "t", ";">>, <<"\"">>>>,
      <<<<"r", "A", "a", "r", "r", ";">>, <<"⇛">>>>, <<<<"r", "A", "r", "r", ";">>, <<"⇒">>>>,
      <<<<"r", "A", "t", "a", "i", "l", ";">>, <<"10524">>>>,
      <<<<"r", "B", "a", "r", "r", ";">>, <<"10511">>>>,
      <<<<"r", "H", "a", "r", ";">>, <<"10596">>>>,
      <<<<"r", "a", "c", "e", ";">>, <<"8765", "817">>>>,
      <<<<"r", "a", "c", "u", "t", "e", ";">>, <<"341">>>>,
      <<<<"r", "a", "d", "i", "c", ";">>, <<"8730">>>>,
      <<<<"r", "a", "e", "m", "p", "t", "y", "v", ";">>, <<"⦳">>>>,
      <<<<"r", "a", "n", "g", ";">>, <<"⟩">>>>, <<<<"r", "a", "n", "g", "d", ";">>, <<"⦒">>>>,
      <<<<"r", "a", "n", "g", "e", ";">>, <<"⦥">>>>,
      <<<<"r", "a", "n", "g", "l", "e", ";">>, <<"⟩">>>>,
      <<<<"r", "a", "q", "u", "o">>, <<"»">>>>, <<<<"r", "a", "q", "u", "o", ";">>, <<"»">>>>,
      <<<<"r", "a", "r", "r", ";">>, <<"→">>>>,
      <<<<"r", "a", "r", "r", "a", "p", ";">>, <<"10613">>>>,
      <<<<"r", "a", "r", "r", "b", ";">>, <<"⇥">>>>,
      <<<<"r", "a", "r", "r", "b", "f", "s", ";">>, <<"10528">>>>,
      <<<<"r", "a", "r", "r", "c", ";">>, <<"10547">>>>,
      <<<<"r", "a", "r", "r", "f", "s", ";">>, <<"10526">>>>,
      <<<<"r", "a", "r", "r", "h", "k", ";">>, <<"↪">>>>,
      <<<<"r", "a", "r", "r", "l", "p", ";">>, <<"↬">>>>,
      <<<<"r", "a", "r", "r", "p", "l", ";">>, <<"10565">>>>,
      <<<<"r", "a", "r", "r", "s", "i", "m", ";">>, <<"10612">>>>,
      <<<<"r", "a", "r", "r", "t", "l", ";">>, <<"↣">>>>,
      <<<<"r", "a", "r", "r", "w", ";">>, <<"↝">>>>,
      <<<<"r", "a", "t", "a", "i", "l", ";">>, <<"10522">>>>,
      <<<<"r", "a", "t", "i", "o", ";">>, <<"8758">>>>,
      <<<<"r", "a", "t", "i", "o", "n", "a", "l", "s", ";">>, <<"8474">>>>,
      <<<<"r", "b", "a", "r", "r", ";">>, <<"10509">>>>,
      <<<<"r", "b", "b", "r", "k", ";">>, <<"10099">>>>,
      <<<<"r", "b", "r", "a", "c", "e", ";">>, <<"}">>>>,
      <<<<"r", "b", "r", "a", "c", "k", ";">>, <<"]">>>>,
      <<<<"r", "b", "r", "k", "e", ";">>, <<"⦌">>>>,
      <<<<"r", "b", "r", "k", "s", "l", "d", ";">>, <<"⦎">>>>,
      <<<<"r", "b", "r", "k", "s", "l", "u", ";">>, <<"⦐">>>>,
      <<<<"r", "c", "a", "r", "o", "n", ";">>, <<"345">>>>,
      <<<<"r", "c", "e", "d", "i", "l", ";">>, <<"343">>>>,
      <<<<"r", "c", "e", "i", "l", ";">>, <<"8969">>>>,
      <<<<"r", "c", "u", "b", ";">>, <<"}">>>>, <<<<"r", "c", "y", ";">>, <<"1088">>>>,
      <<<<"r", "d", "c", "a", ";">>, <<"10551">>>>,
      <<<<"r", "d", "l", "d", "h", "a", "r", ";">>, <<"10601">>>>,
      <<<<"r", "d", "q", "u", "o", ";">>, <<"8221">>>>,
      <<<<"r", "d", "q", "u", "o", "r", ";">>, <<"8221">>>>,
      <<<<"r", "d", "s", "h", ";">>, <<"↳">>>>, <<<<"r", "e", "a", "l", ";">>, <<"8476">>>>,
      <<<<"r", "e", "a", "l", "i", "n", "e", ";">>, <<"8475">>>>,
      <<<<"r", "e", "a", "l", "p", "a", "r", "t", ";">>, <<"8476">>>>,
      <<<<"r", "e", "a", "l", "s", ";">>, <<"8477">>>>,
      <<<<"r", "e", "c", "t", ";">>, <<"▭">>>>, <<<<"r", "e", "g">>, <<"®">>>>,
      <<<<"r", "e", "g", ";">>, <<"®">>>>,
      <<<<"r", "f", "i", "s", "h", "t", ";">>, <<"10621">>>>,
      <<<<"r", "f", "l", "o", "o", "r", ";">>, <<"8971">>>>,
      <<<<"r", "f", "r", ";">>, <<"120111">>>>, <<<<"r", "h", "a", "r", "d", ";">>, <<"⇁">>>>,
      <<<<"r", "h", "a", "r", "u", ";">>, <<"⇀">>>>,
      <<<<"r", "h", "a", "r", "u", "l", ";">>, <<"10604">>>>,
      <<<<"r", "h", "o", ";">>, <<"ρ">>>>, <<<<"r", "h", "o", "v", ";">>, <<"ϱ">>>>,
      <<<<"r", "i", "g", "h", "t", "a", "r", "r", "o", "w", ";">>, <<"→">>>>,
      <<<<"r", "i", "g", "h", "t", "a", "r", "r", "o", "w", "t", "a", "i", "l", ";">>, <<"↣">>>>,
      <<<<"r", "i", "g", "h", "t", "h", "a", "r", "p", "o", "o", "n", "d", "o", "w", "n", ";">>, <<"⇁">>>>,
      <<<<"r", "i", "g", "h", "t", "h", "a", "r", "p", "o", "o", "n", "u", "p", ";">>, <<"⇀">>>>,
      <<<<"r", "i", "g", "h", "t", "l", "e", "f", "t", "a", "r", "r", "o", "w", "s", ";">>, <<"⇄">>>>,
      <<<<"r", "i", "g", "h", "t", "l", "e", "f", "t", "h", "a", "r", "p", "o", "o", "n", "s", ";">>, <<"⇌">>>>,
      <<<<"r", "i", "g", "h", "t", "r", "i", "g", "h", "t", "a", "r", "r", "o", "w", "s", ";">>, <<"⇉">>>>,
      <<<<"r", "i", "g", "h", "t", "s", "q", "u", "i", "g", "a", "r", "r", "o", "w", ";">>, <<"↝">>>>,
      <<<<"r", "i", "g", "h", "t", "t", "h", "r", "e", "e", "t", "i", "m", "e", "s", ";">>, <<"⋌">>>>,
      <<<<"r", "i", "n", "g", ";">>, <<"˚">>>>,
      <<<<"r", "i", "s", "i", "n", "g", "d", "o", "t", "s", "e", "q", ";">>, <<"8787">>>>,
      <<<<"r", "l", "a", "r", "r", ";">>, <<"⇄">>>>,
      <<<<"r", "l", "h", "a", "r", ";">>, <<"⇌">>>>, <<<<"r", "l", "m", ";">>, <<"8207">>>>,
      <<<<"r", "m", "o", "u", "s", "t", ";">>, <<"⎱">>>>,
      <<<<"r", "m", "o", "u", "s", "t", "a", "c", "h", "e", ";">>, <<"⎱">>>>,
      <<<<"r", "n", "m", "i", "d", ";">>, <<"⫮">>>>,
      <<<<"r", "o", "a", "n", "g", ";">>, <<"⟭">>>>,
      <<<<"r", "o", "a", "r", "r", ";">>, <<"⇾">>>>,
      <<<<"r", "o", "b", "r", "k", ";">>, <<"⟧">>>>,
      <<<<"r", "o", "p", "a", "r", ";">>, <<"⦆">>>>,
      <<<<"r", "o", "p", "f", ";">>, <<"120163">>>>,
      <<<<"r", "o", "p", "l", "u", "s", ";">>, <<"10798">>>>,
      <<<<"r", "o", "t", "i", "m", "e", "s", ";">>, <<"10805">>>>,
      <<<<"r", "p", "a", "r", ";">>, <<")">>>>,
      <<<<"r", "p", "a", "r", "g", "t", ";">>, <<"⦔">>>>,
      <<<<"r", "p", "p", "o", "l", "i", "n", "t", ";">>, <<"10770">>>>,
      <<<<"r", "r", "a", "r", "r", ";">>, <<"⇉">>>>,
      <<<<"r", "s", "a", "q", "u", "o", ";">>, <<"8250">>>>,
      <<<<"r", "s", "c", "r", ";">>, <<"120007">>>>, <<<<"r", "s", "h", ";">>, <<"↱">>>>,
      <<<<"r", "s", "q", "b", ";">>, <<"]">>>>,
      <<<<"r", "s", "q", "u", "o", ";">>, <<"8217">>>>,
      <<<<"r", "s", "q", "u", "o", "r", ";">>, <<"8217">>>>,
      <<<<"r", "t", "h", "r", "e", "e", ";">>, <<"⋌">>>>,
      <<<<"r", "t", "i", "m", "e", "s", ";">>, <<"⋊">>>>,
      <<<<"r", "t", "r", "i", ";">>, <<"▹">>>>, <<<<"r", "t", "r", "i", "e", ";">>, <<"⊵">>>>,
      <<<<"r", "t", "r", "i", "f", ";">>, <<"▸">>>>,
      <<<<"r", "t", "r", "i", "l", "t", "r", "i", ";">>, <<"⧎">>>>,
      <<<<"r", "u", "l", "u", "h", "a", "r", ";">>, <<"10600">>>>,
      <<<<"r", "x", ";">>, <<"8478">>>>, <<<<"s", "a", "c", "u", "t", "e", ";">>, <<"347">>>>,
      <<<<"s", "b", "q", "u", "o", ";">>, <<"8218">>>>, <<<<"s", "c", ";">>, <<"8827">>>>,
      <<<<"s", "c", "E", ";">>, <<"⪴">>>>, <<<<"s", "c", "a", "p", ";">>, <<"⪸">>>>,
      <<<<"s", "c", "a", "r", "o", "n", ";">>, <<"353">>>>,
      <<<<"s", "c", "c", "u", "e", ";">>, <<"8829">>>>, <<<<"s", "c", "e", ";">>, <<"⪰">>>>,
      <<<<"s", "c", "e", "d", "i", "l", ";">>, <<"351">>>>,
      <<<<"s", "c", "i", "r", "c", ";">>, <<"349">>>>,
      <<<<"s", "c", "n", "E", ";">>, <<"⪶">>>>, <<<<"s", "c", "n", "a", "p", ";">>, <<"⪺">>>>,
      <<<<"s", "c", "n", "s", "i", "m", ";">>, <<"⋩">>>>,
      <<<<"s", "c", "p", "o", "l", "i", "n", "t", ";">>, <<"10771">>>>,
      <<<<"s", "c", "s", "i", "m", ";">>, <<"8831">>>>, <<<<"s", "c", "y", ";">>, <<"1089">>>>,
      <<<<"s", "d", "o", "t", ";">>, <<"⋅">>>>, <<<<"s", "d", "o", "t", "b", ";">>, <<"⊡">>>>,
      <<<<"s", "d", "o", "t", "e", ";">>, <<"10854">>>>,
      <<<<"s", "e", "A", "r", "r", ";">>, <<"⇘">>>>,
      <<<<"s", "e", "a", "r", "h", "k", ";">>, <<"10533">>>>,
      <<<<"s", "e", "a", "r", "r", ";">>, <<"↘">>>>,
      <<<<"s", "e", "a", "r", "r", "o", "w", ";">>, <<"↘">>>>,
      <<<<"s", "e", "c", "t">>, <<"§">>>>, <<<<"s", "e", "c", "t", ";">>, <<"§">>>>,
      <<<<"s", "e", "m", "i", ";">>, <<";">>>>,
      <<<<"s", "e", "s", "w", "a", "r", ";">>, <<"10537">>>>,
      <<<<"s", "e", "t", "m", "i", "n", "u", "s", ";">>, <<"8726">>>>,
      <<<<"s", "e", "t", "m", "n", ";">>, <<"8726">>>>,
      <<<<"s", "e", "x", "t", ";">>, <<"10038">>>>, <<<<"s", "f", "r", ";">>, <<"120112">>>>,
      <<<<"s", "f", "r", "o", "w", "n", ";">>, <<"8994">>>>,
      <<<<"s", "h", "a", "r", "p", ";">>, <<"9839">>>>,
      <<<<"s", "h", "c", "h", "c", "y", ";">>, <<"1097">>>>,
      <<<<"s", "h", "c", "y", ";">>, <<"1096">>>>,
      <<<<"s", "h", "o", "r", "t", "m", "i", "d", ";">>, <<"8739">>>>,
      <<<<"s", "h", "o", "r", "t", "p", "a", "r", "a", "l", "l", "e", "l", ";">>, <<"8741">>>>,
      <<<<"s", "h", "y">>, <<"­">>>>, <<<<"s", "h", "y", ";">>, <<"­">>>>,
      <<<<"s", "i", "g", "m", "a", ";">>, <<"σ">>>>,
      <<<<"s", "i", "g", "m", "a", "f", ";">>, <<"ς">>>>,
      <<<<"s", "i", "g", "m", "a", "v", ";">>, <<"ς">>>>,
      <<<<"s", "i", "m", ";">>, <<"8764">>>>,
      <<<<"s", "i", "m", "d", "o", "t", ";">>, <<"10858">>>>,
      <<<<"s", "i", "m", "e", ";">>, <<"8771">>>>,
      <<<<"s", "i", "m", "e", "q", ";">>, <<"8771">>>>,
      <<<<"s", "i", "m", "g", ";">>, <<"⪞">>>>, <<<<"s", "i", "m", "g", "E", ";">>, <<"⪠">>>>,
      <<<<"s", "i", "m", "l", ";">>, <<"⪝">>>>, <<<<"s", "i", "m", "l", "E", ";">>, <<"⪟">>>>,
      <<<<"s", "i", "m", "n", "e", ";">>, <<"8774">>>>,
      <<<<"s", "i", "m", "p", "l", "u", "s", ";">>, <<"10788">>>>,
      <<<<"s", "i", "m", "r", "a", "r", "r", ";">>, <<"10610">>>>,
      <<<<"s", "l", "a", "r", "r", ";">>, <<"←">>>>,
      <<<<"s", "m", "a", "l", "l", "s", "e", "t", "m", "i", "n", "u", "s", ";">>, <<"8726">>>>,
      <<<<"s", "m", "a", "s", "h", "p", ";">>, <<"10803">>>>,
      <<<<"s", "m", "e", "p", "a", "r", "s", "l", ";">>, <<"⧤">>>>,
      <<<<"s", "m", "i", "d", ";">>, <<"8739">>>>,
      <<<<"s", "m", "i", "l", "e", ";">>, <<"8995">>>>, <<<<"s", "m", "t", ";">>, <<"⪪">>>>,
      <<<<"s", "m", "t", "e", ";">>, <<"⪬">>>>,
      <<<<"s", "m", "t", "e", "s", ";">>, <<"⪬", "65024">>>>,
      <<<<"s", "o", "f", "t", "c", "y", ";">>, <<"1100">>>>,
      <<<<"s", "o", "l", ";">>, <<"/">>>>, <<<<"s", "o", "l", "b", ";">>, <<"⧄">>>>,
      <<<<"s", "o", "l", "b", "a", "r", ";">>, <<"9023">>>>,
      <<<<"s", "o", "p", "f", ";">>, <<"120164">>>>,
      <<<<"s", "p", "a", "d", "e", "s", ";">>, <<"9824">>>>,
      <<<<"s", "p", "a", "d", "e", "s", "u", "i", "t", ";">>, <<"9824">>>>,
      <<<<"s", "p", "a", "r", ";">>, <<"8741">>>>,
      <<<<"s", "q", "c", "a", "p", ";">>, <<"⊓">>>>,
      <<<<"s", "q", "c", "a", "p", "s", ";">>, <<"⊓", "65024">>>>,
      <<<<"s", "q", "c", "u", "p", ";">>, <<"⊔">>>>,
      <<<<"s", "q", "c", "u", "p", "s", ";">>, <<"⊔", "65024">>>>,
      <<<<"s", "q", "s", "u", "b", ";">>, <<"⊏">>>>,
      <<<<"s", "q", "s", "u", "b", "e", ";">>, <<"⊑">>>>,
      <<<<"s", "q", "s", "u", "b", "s", "e", "t", ";">>, <<"⊏">>>>,
      <<<<"s", "q", "s", "u", "b", "s", "e", "t", "e", "q", ";">>, <<"⊑">>>>,
      <<<<"s", "q", "s", "u", "p", ";">>, <<"⊐">>>>,
      <<<<"s", "q", "s", "u", "p", "e", ";">>, <<"⊒">>>>,
      <<<<"s", "q", "s", "u", "p", "s", "e", "t", ";">>, <<"⊐">>>>,
      <<<<"s", "q", "s", "u", "p", "s", "e", "t", "e", "q", ";">>, <<"⊒">>>>,
      <<<<"s", "q", "u", ";">>, <<"□">>>>, <<<<"s", "q", "u", "a", "r", "e", ";">>, <<"□">>>>,
      <<<<"s", "q", "u", "a", "r", "f", ";">>, <<"▪">>>>,
      <<<<"s", "q", "u", "f", ";">>, <<"▪">>>>, <<<<"s", "r", "a", "r", "r", ";">>, <<"→">>>>,
      <<<<"s", "s", "c", "r", ";">>, <<"120008">>>>,
      <<<<"s", "s", "e", "t", "m", "n", ";">>, <<"8726">>>>,
      <<<<"s", "s", "m", "i", "l", "e", ";">>, <<"8995">>>>,
      <<<<"s", "s", "t", "a", "r", "f", ";">>, <<"⋆">>>>,
      <<<<"s", "t", "a", "r", ";">>, <<"9734">>>>,
      <<<<"s", "t", "a", "r", "f", ";">>, <<"9733">>>>,
      <<<<"s", "t", "r", "a", "i", "g", "h", "t", "e", "p", "s", "i", "l", "o", "n", ";">>, <<"ϵ">>>>,
      <<<<"s", "t", "r", "a", "i", "g", "h", "t", "p", "h", "i", ";">>, <<"ϕ">>>>,
      <<<<"s", "t", "r", "n", "s", ";">>, <<"¯">>>>, <<<<"s", "u", "b", ";">>, <<"⊂">>>>,
      <<<<"s", "u", "b", "E", ";">>, <<"⫅">>>>,
      <<<<"s", "u", "b", "d", "o", "t", ";">>, <<"⪽">>>>,
      <<<<"s", "u", "b", "e", ";">>, <<"⊆">>>>,
      <<<<"s", "u", "b", "e", "d", "o", "t", ";">>, <<"⫃">>>>,
      <<<<"s", "u", "b", "m", "u", "l", "t", ";">>, <<"⫁">>>>,
      <<<<"s", "u", "b", "n", "E", ";">>, <<"⫋">>>>,
      <<<<"s", "u", "b", "n", "e", ";">>, <<"⊊">>>>,
      <<<<"s", "u", "b", "p", "l", "u", "s", ";">>, <<"⪿">>>>,
      <<<<"s", "u", "b", "r", "a", "r", "r", ";">>, <<"10617">>>>,
      <<<<"s", "u", "b", "s", "e", "t", ";">>, <<"⊂">>>>,
      <<<<"s", "u", "b", "s", "e", "t", "e", "q", ";">>, <<"⊆">>>>,
      <<<<"s", "u", "b", "s", "e", "t", "e", "q", "q", ";">>, <<"⫅">>>>,
      <<<<"s", "u", "b", "s", "e", "t", "n", "e", "q", ";">>, <<"⊊">>>>,
      <<<<"s", "u", "b", "s", "e", "t", "n", "e", "q", "q", ";">>, <<"⫋">>>>,
      <<<<"s", "u", "b", "s", "i", "m", ";">>, <<"⫇">>>>,
      <<<<"s", "u", "b", "s", "u", "b", ";">>, <<"⫕">>>>,
      <<<<"s", "u", "b", "s", "u", "p", ";">>, <<"⫓">>>>,
      <<<<"s", "u", "c", "c", ";">>, <<"8827">>>>,
      <<<<"s", "u", "c", "c", "a", "p", "p", "r", "o", "x", ";">>, <<"⪸">>>>,
      <<<<"s", "u", "c", "c", "c", "u", "r", "l", "y", "e", "q", ";">>, <<"8829">>>>,
      <<<<"s", "u", "c", "c", "e", "q", ";">>, <<"⪰">>>>,
      <<<<"s", "u", "c", "c", "n", "a", "p", "p", "r", "o", "x", ";">>, <<"⪺">>>>,
      <<<<"s", "u", "c", "c", "n", "e", "q", "q", ";">>, <<"⪶">>>>,
      <<<<"s", "u", "c", "c", "n", "s", "i", "m", ";">>, <<"⋩">>>>,
      <<<<"s", "u", "c", "c", "s", "i", "m", ";">>, <<"8831">>>>,
      <<<<"s", "u", "m", ";">>, <<"8721">>>>, <<<<"s", "u", "n", "g", ";">>, <<"9834">>>>,
      <<<<"s", "u", "p", "1">>, <<"¹">>>>, <<<<"s", "u", "p", "1", ";">>, <<"¹">>>>,
      <<<<"s", "u", "p", "2">>, <<"²">>>>, <<<<"s", "u", "p", "2", ";">>, <<"²">>>>,
      <<<<"s", "u", "p", "3">>, <<"³">>>>, <<<<"s", "u", "p", "3", ";">>, <<"³">>>>,
      <<<<"s", "u", "p", ";">>, <<"⊃">>>>, <<<<"s", "u", "p", "E", ";">>, <<"⫆">>>>,
      <<<<"s", "u", "p", "d", "o", "t", ";">>, <<"⪾">>>>,
      <<<<"s", "u", "p", "d", "s", "u", "b", ";">>, <<"⫘">>>>,
      <<<<"s", "u", "p", "e", ";">>, <<"⊇">>>>,
      <<<<"s", "u", "p", "e", "d", "o", "t", ";">>, <<"⫄">>>>,
      <<<<"s", "u", "p", "h", "s", "o", "l", ";">>, <<"⟉">>>>,
      <<<<"s", "u", "p", "h", "s", "u", "b", ";">>, <<"⫗">>>>,
      <<<<"s", "u", "p", "l", "a", "r", "r", ";">>, <<"10619">>>>,
      <<<<"s", "u", "p", "m", "u", "l", "t", ";">>, <<"⫂">>>>,
      <<<<"s", "u", "p", "n", "E", ";">>, <<"⫌">>>>,
      <<<<"s", "u", "p", "n", "e", ";">>, <<"⊋">>>>,
      <<<<"s", "u", "p", "p", "l", "u", "s", ";">>, <<"⫀">>>>,
      <<<<"s", "u", "p", "s", "e", "t", ";">>, <<"⊃">>>>,
      <<<<"s", "u", "p", "s", "e", "t", "e", "q", ";">>, <<"⊇">>>>,
      <<<<"s", "u", "p", "s", "e", "t", "e", "q", "q", ";">>, <<"⫆">>>>,
      <<<<"s", "u", "p", "s", "e", "t", "n", "e", "q", ";">>, <<"⊋">>>>,
      <<<<"s", "u", "p", "s", "e", "t", "n", "e", "q", "q", ";">>, <<"⫌">>>>,
      <<<<"s", "u", "p", "s", "i", "m", ";">>, <<"⫈">>>>,
      <<<<"s", "u", "p", "s", "u", "b", ";">>, <<"⫔">>>>,
      <<<<"s", "u", "p", "s", "u", "p", ";">>, <<"⫖">>>>,
      <<<<"s", "w", "A", "r", "r", ";">>, <<"⇙">>>>,
      <<<<"s", "w", "a", "r", "h", "k", ";">>, <<"10534">>>>,
      <<<<"s", "w", "a", "r", "r", ";">>, <<"↙">>>>,
      <<<<"s", "w", "a", "r", "r", "o", "w", ";">>, <<"↙">>>>,
      <<<<"s", "w", "n", "w", "a", "r", ";">>, <<"10538">>>>,
      <<<<"s", "z", "l", "i", "g">>, <<"ß">>>>, <<<<"s", "z", "l", "i", "g", ";">>, <<"ß">>>>,
      <<<<"t", "a", "r", "g", "e", "t", ";">>, <<"8982">>>>,
      <<<<"t", "a", "u", ";">>, <<"τ">>>>, <<<<"t", "b", "r", "k", ";">>, <<"⎴">>>>,
      <<<<"t", "c", "a", "r", "o", "n", ";">>, <<"357">>>>,
      <<<<"t", "c", "e", "d", "i", "l", ";">>, <<"355">>>>,
      <<<<"t", "c", "y", ";">>, <<"1090">>>>, <<<<"t", "d", "o", "t", ";">>, <<"⃛">>>>,
      <<<<"t", "e", "l", "r", "e", "c", ";">>, <<"8981">>>>,
      <<<<"t", "f", "r", ";">>, <<"120113">>>>,
      <<<<"t", "h", "e", "r", "e", "4", ";">>, <<"8756">>>>,
      <<<<"t", "h", "e", "r", "e", "f", "o", "r", "e", ";">>, <<"8756">>>>,
      <<<<"t", "h", "e", "t", "a", ";">>, <<"θ">>>>,
      <<<<"t", "h", "e", "t", "a", "s", "y", "m", ";">>, <<"ϑ">>>>,
      <<<<"t", "h", "e", "t", "a", "v", ";">>, <<"ϑ">>>>,
      <<<<"t", "h", "i", "c", "k", "a", "p", "p", "r", "o", "x", ";">>, <<"8776">>>>,
      <<<<"t", "h", "i", "c", "k", "s", "i", "m", ";">>, <<"8764">>>>,
      <<<<"t", "h", "i", "n", "s", "p", ";">>, <<"8201">>>>,
      <<<<"t", "h", "k", "a", "p", ";">>, <<"8776">>>>,
      <<<<"t", "h", "k", "s", "i", "m", ";">>, <<"8764">>>>,
      <<<<"t", "h", "o", "r", "n">>, <<"þ">>>>, <<<<"t", "h", "o", "r", "n", ";">>, <<"þ">>>>,
      <<<<"t", "i", "l", "d", "e", ";">>, <<"˜">>>>, <<<<"t", "i", "m", "e", "s">>, <<"×">>>>,
      <<<<"t", "i", "m", "e", "s", ";">>, <<"×">>>>,
      <<<<"t", "i", "m", "e", "s", "b", ";">>, <<"⊠">>>>,
      <<<<"t", "i", "m", "e", "s", "b", "a", "r", ";">>, <<"10801">>>>,
      <<<<"t", "i", "m", "e", "s", "d", ";">>, <<"10800">>>>,
      <<<<"t", "i", "n", "t", ";">>, <<"8749">>>>,
      <<<<"t", "o", "e", "a", ";">>, <<"10536">>>>, <<<<"t", "o", "p", ";">>, <<"⊤">>>>,
      <<<<"t", "o", "p", "b", "o", "t", ";">>, <<"9014">>>>,
      <<<<"t", "o", "p", "c", "i", "r", ";">>, <<"⫱">>>>,
      <<<<"t", "o", "p", "f", ";">>, <<"120165">>>>,
      <<<<"t", "o", "p", "f", "o", "r", "k", ";">>, <<"⫚">>>>,
      <<<<"t", "o", "s", "a", ";">>, <<"10537">>>>,
      <<<<"t", "p", "r", "i", "m", "e", ";">>, <<"8244">>>>,
      <<<<"t", "r", "a", "d", "e", ";">>, <<"8482">>>>,
      <<<<"t", "r", "i", "a", "n", "g", "l", "e", ";">>, <<"▵">>>>,
      <<<<"t", "r", "i", "a", "n", "g", "l", "e", "d", "o", "w", "n", ";">>, <<"▿">>>>,
      <<<<"t", "r", "i", "a", "n", "g", "l", "e", "l", "e", "f", "t", ";">>, <<"◃">>>>,
      <<<<"t", "r", "i", "a", "n", "g", "l", "e", "l", "e", "f", "t", "e", "q", ";">>, <<"⊴">>>>,
      <<<<"t", "r", "i", "a", "n", "g", "l", "e", "q", ";">>, <<"8796">>>>,
      <<<<"t", "r", "i", "a", "n", "g", "l", "e", "r", "i", "g", "h", "t", ";">>, <<"▹">>>>,
      <<<<"t", "r", "i", "a", "n", "g", "l", "e", "r", "i", "g", "h", "t", "e", "q", ";">>, <<"⊵">>>>,
      <<<<"t", "r", "i", "d", "o", "t", ";">>, <<"◬">>>>,
      <<<<"t", "r", "i", "e", ";">>, <<"8796">>>>,
      <<<<"t", "r", "i", "m", "i", "n", "u", "s", ";">>, <<"10810">>>>,
      <<<<"t", "r", "i", "p", "l", "u", "s", ";">>, <<"10809">>>>,
      <<<<"t", "r", "i", "s", "b", ";">>, <<"⧍">>>>,
      <<<<"t", "r", "i", "t", "i", "m", "e", ";">>, <<"10811">>>>,
      <<<<"t", "r", "p", "e", "z", "i", "u", "m", ";">>, <<"⏢">>>>,
      <<<<"t", "s", "c", "r", ";">>, <<"120009">>>>,
      <<<<"t", "s", "c", "y", ";">>, <<"1094">>>>,
      <<<<"t", "s", "h", "c", "y", ";">>, <<"1115">>>>,
      <<<<"t", "s", "t", "r", "o", "k", ";">>, <<"359">>>>,
      <<<<"t", "w", "i", "x", "t", ";">>, <<"8812">>>>,
      <<<<"t", "w", "o", "h", "e", "a", "d", "l", "e", "f", "t", "a", "r", "r", "o", "w", ";">>, <<"↞">>>>,
      <<<<"t", "w", "o", "h", "e", "a", "d", "r", "i", "g", "h", "t", "a", "r", "r", "o", "w", ";">>, <<"↠">>>>,
      <<<<"u", "A", "r", "r", ";">>, <<"⇑">>>>, <<<<"u", "H", "a", "r", ";">>, <<"10595">>>>,
      <<<<"u", "a", "c", "u", "t", "e">>, <<"ú">>>>,
      <<<<"u", "a", "c", "u", "t", "e", ";">>, <<"ú">>>>,
      <<<<"u", "a", "r", "r", ";">>, <<"↑">>>>,
      <<<<"u", "b", "r", "c", "y", ";">>, <<"1118">>>>,
      <<<<"u", "b", "r", "e", "v", "e", ";">>, <<"365">>>>,
      <<<<"u", "c", "i", "r", "c">>, <<"û">>>>, <<<<"u", "c", "i", "r", "c", ";">>, <<"û">>>>,
      <<<<"u", "c", "y", ";">>, <<"1091">>>>, <<<<"u", "d", "a", "r", "r", ";">>, <<"⇅">>>>,
      <<<<"u", "d", "b", "l", "a", "c", ";">>, <<"369">>>>,
      <<<<"u", "d", "h", "a", "r", ";">>, <<"10606">>>>,
      <<<<"u", "f", "i", "s", "h", "t", ";">>, <<"10622">>>>,
      <<<<"u", "f", "r", ";">>, <<"120114">>>>, <<<<"u", "g", "r", "a", "v", "e">>, <<"ù">>>>,
      <<<<"u", "g", "r", "a", "v", "e", ";">>, <<"ù">>>>,
      <<<<"u", "h", "a", "r", "l", ";">>, <<"↿">>>>,
      <<<<"u", "h", "a", "r", "r", ";">>, <<"↾">>>>,
      <<<<"u", "h", "b", "l", "k", ";">>, <<"▀">>>>,
      <<<<"u", "l", "c", "o", "r", "n", ";">>, <<"8988">>>>,
      <<<<"u", "l", "c", "o", "r", "n", "e", "r", ";">>, <<"8988">>>>,
      <<<<"u", "l", "c", "r", "o", "p", ";">>, <<"8975">>>>,
      <<<<"u", "l", "t", "r", "i", ";">>, <<"◸">>>>,
      <<<<"u", "m", "a", "c", "r", ";">>, <<"363">>>>, <<<<"u", "m", "l">>, <<"¨">>>>,
      <<<<"u", "m", "l", ";">>, <<"¨">>>>, <<<<"u", "o", "g", "o", "n", ";">>, <<"371">>>>,
      <<<<"u", "o", "p", "f", ";">>, <<"120166">>>>,
      <<<<"u", "p", "a", "r", "r", "o", "w", ";">>, <<"↑">>>>,
      <<<<"u", "p", "d", "o", "w", "n", "a", "r", "r", "o", "w", ";">>, <<"↕">>>>,
      <<<<"u", "p", "h", "a", "r", "p", "o", "o", "n", "l", "e", "f", "t", ";">>, <<"↿">>>>,
      <<<<"u", "p", "h", "a", "r", "p", "o", "o", "n", "r", "i", "g", "h", "t", ";">>, <<"↾">>>>,
      <<<<"u", "p", "l", "u", "s", ";">>, <<"⊎">>>>, <<<<"u", "p", "s", "i", ";">>, <<"υ">>>>,
      <<<<"u", "p", "s", "i", "h", ";">>, <<"ϒ">>>>,
      <<<<"u", "p", "s", "i", "l", "o", "n", ";">>, <<"υ">>>>,
      <<<<"u", "p", "u", "p", "a", "r", "r", "o", "w", "s", ";">>, <<"⇈">>>>,
      <<<<"u", "r", "c", "o", "r", "n", ";">>, <<"8989">>>>,
      <<<<"u", "r", "c", "o", "r", "n", "e", "r", ";">>, <<"8989">>>>,
      <<<<"u", "r", "c", "r", "o", "p", ";">>, <<"8974">>>>,
      <<<<"u", "r", "i", "n", "g", ";">>, <<"367">>>>,
      <<<<"u", "r", "t", "r", "i", ";">>, <<"◹">>>>,
      <<<<"u", "s", "c", "r", ";">>, <<"120010">>>>,
      <<<<"u", "t", "d", "o", "t", ";">>, <<"⋰">>>>,
      <<<<"u", "t", "i", "l", "d", "e", ";">>, <<"361">>>>,
      <<<<"u", "t", "r", "i", ";">>, <<"▵">>>>, <<<<"u", "t", "r", "i", "f", ";">>, <<"▴">>>>,
      <<<<"u", "u", "a", "r", "r", ";">>, <<"⇈">>>>, <<<<"u", "u", "m", "l">>, <<"ü">>>>,
      <<<<"u", "u", "m", "l", ";">>, <<"ü">>>>,
      <<<<"u", "w", "a", "n", "g", "l", "e", ";">>, <<"⦧">>>>,
      <<<<"v", "A", "r", "r", ";">>, <<"⇕">>>>, <<<<"v", "B", "a", "r", ";">>, <<"⫨">>>>,
      <<<<"v", "B", "a", "r", "v", ";">>, <<"⫩">>>>,
      <<<<"v", "D", "a", "s", "h", ";">>, <<"⊨">>>>,
      <<<<"v", "a", "n", "g", "r", "t", ";">>, <<"⦜">>>>,
      <<<<"v", "a", "r", "e", "p", "s", "i", "l", "o", "n", ";">>, <<"ϵ">>>>,
      <<<<"v", "a", "r", "k", "a", "p", "p", "a", ";">>, <<"ϰ">>>>,
      <<<<"v", "a", "r", "n", "o", "t", "h", "i", "n", "g", ";">>, <<"8709">>>>,
      <<<<"v", "a", "r", "p", "h", "i", ";">>, <<"ϕ">>>>,
      <<<<"v", "a", "r", "p", "i", ";">>, <<"ϖ">>>>,
      <<<<"v", "a", "r", "p", "r", "o", "p", "t", "o", ";">>, <<"8733">>>>,
      <<<<"v", "a", "r", "r", ";">>, <<"↕">>>>,
      <<<<"v", "a", "r", "r", "h", "o", ";">>, <<"ϱ">>>>,
      <<<<"v", "a", "r", "s", "i", "g", "m", "a", ";">>, <<"ς">>>>,
      <<<<"v", "a", "r", "s", "u", "b", "s", "e", "t", "n", "e", "q", ";">>, <<"⊊", "65024">>>>,
      <<<<"v", "a", "r", "s", "u", "b", "s", "e", "t", "n", "e", "q", "q", ";">>, <<"⫋", "65024">>>>,
      <<<<"v", "a", "r", "s", "u", "p", "s", "e", "t", "n", "e", "q", ";">>, <<"⊋", "65024">>>>,
      <<<<"v", "a", "r", "s", "u", "p", "s", "e", "t", "n", "e", "q", "q", ";">>, <<"⫌", "65024">>>>,
      <<<<"v", "a", "r", "t", "h", "e", "t", "a", ";">>, <<"ϑ">>>>,
      <<<<"v", "a", "r", "t", "r", "i", "a", "n", "g", "l", "e", "l", "e", "f", "t", ";">>, <<"⊲">>>>,
      <<<<"v", "a", "r", "t", "r", "i", "a", "n", "g", "l", "e", "r", "i", "g", "h", "t", ";">>, <<"⊳">>>>,
      <<<<"v", "c", "y", ";">>, <<"1074">>>>, <<<<"v", "d", "a", "s", "h", ";">>, <<"⊢">>>>,
      <<<<"v", "e", "e", ";">>, <<"8744">>>>,
      <<<<"v", "e", "e", "b", "a", "r", ";">>, <<"⊻">>>>,
      <<<<"v", "e", "e", "e", "q", ";">>, <<"8794">>>>,
      <<<<"v", "e", "l", "l", "i", "p", ";">>, <<"⋮">>>>,
      <<<<"v", "e", "r", "b", "a", "r", ";">>, <<"|">>>>,
      <<<<"v", "e", "r", "t", ";">>, <<"|">>>>, <<<<"v", "f", "r", ";">>, <<"120115">>>>,
      <<<<"v", "l", "t", "r", "i", ";">>, <<"⊲">>>>,
      <<<<"v", "n", "s", "u", "b", ";">>, <<"⊂", "⃒">>>>,
      <<<<"v", "n", "s", "u", "p", ";">>, <<"⊃", "⃒">>>>,
      <<<<"v", "o", "p", "f", ";">>, <<"120167">>>>,
      <<<<"v", "p", "r", "o", "p", ";">>, <<"8733">>>>,
      <<<<"v", "r", "t", "r", "i", ";">>, <<"⊳">>>>,
      <<<<"v", "s", "c", "r", ";">>, <<"120011">>>>,
      <<<<"v", "s", "u", "b", "n", "E", ";">>, <<"⫋", "65024">>>>,
      <<<<"v", "s", "u", "b", "n", "e", ";">>, <<"⊊", "65024">>>>,
      <<<<"v", "s", "u", "p", "n", "E", ";">>, <<"⫌", "65024">>>>,
      <<<<"v", "s", "u", "p", "n", "e", ";">>, <<"⊋", "65024">>>>,
      <<<<"v", "z", "i", "g", "z", "a", "g", ";">>, <<"⦚">>>>,
      <<<<"w", "c", "i", "r", "c", ";">>, <<"373">>>>,
      <<<<"w", "e", "d", "b", "a", "r", ";">>, <<"10847">>>>,
      <<<<"w", "e", "d", "g", "e", ";">>, <<"8743">>>>,
      <<<<"w", "e", "d", "g", "e", "q", ";">>, <<"8793">>>>,
      <<<<"w", "e", "i", "e", "r", "p", ";">>, <<"8472">>>>,
      <<<<"w", "f", "r", ";">>, <<"120116">>>>, <<<<"w", "o", "p", "f", ";">>, <<"120168">>>>,
      <<<<"w", "p", ";">>, <<"8472">>>>, <<<<"w", "r", ";">>, <<"8768">>>>,
      <<<<"w", "r", "e", "a", "t", "h", ";">>, <<"8768">>>>,
      <<<<"w", "s", "c", "r", ";">>, <<"120012">>>>, <<<<"x", "c", "a", "p", ";">>, <<"⋂">>>>,
      <<<<"x", "c", "i", "r", "c", ";">>, <<"◯">>>>, <<<<"x", "c", "u", "p", ";">>, <<"⋃">>>>,
      <<<<"x", "d", "t", "r", "i", ";">>, <<"▽">>>>, <<<<"x", "f", "r", ";">>, <<"120117">>>>,
      <<<<"x", "h", "A", "r", "r", ";">>, <<"⟺">>>>,
      <<<<"x", "h", "a", "r", "r", ";">>, <<"⟷">>>>, <<<<"x", "i", ";">>, <<"ξ">>>>,
      <<<<"x", "l", "A", "r", "r", ";">>, <<"⟸">>>>,
      <<<<"x", "l", "a", "r", "r", ";">>, <<"⟵">>>>, <<<<"x", "m", "a", "p", ";">>, <<"⟼">>>>,
      <<<<"x", "n", "i", "s", ";">>, <<"⋻">>>>,
      <<<<"x", "o", "d", "o", "t", ";">>, <<"10752">>>>,
      <<<<"x", "o", "p", "f", ";">>, <<"120169">>>>,
      <<<<"x", "o", "p", "l", "u", "s", ";">>, <<"10753">>>>,
      <<<<"x", "o", "t", "i", "m", "e", ";">>, <<"10754">>>>,
      <<<<"x", "r", "A", "r", "r", ";">>, <<"⟹">>>>,
      <<<<"x", "r", "a", "r", "r", ";">>, <<"⟶">>>>,
      <<<<"x", "s", "c", "r", ";">>, <<"120013">>>>,
      <<<<"x", "s", "q", "c", "u", "p", ";">>, <<"10758">>>>,
      <<<<"x", "u", "p", "l", "u", "s", ";">>, <<"10756">>>>,
      <<<<"x", "u", "t", "r", "i", ";">>, <<"△">>>>, <<<<"x", "v", "e", "e", ";">>, <<"⋁">>>>,
      <<<<"x", "w", "e", "d", "g", "e", ";">>, <<"⋀">>>>,
      <<<<"y", "a", "c", "u", "t", "e">>, <<"ý">>>>,
      <<<<"y", "a", "c", "u", "t", "e", ";">>, <<"ý">>>>,
      <<<<"y", "a", "c", "y", ";">>, <<"1103">>>>,
      <<<<"y", "c", "i", "r", "c", ";">>, <<"375">>>>, <<<<"y", "c", "y", ";">>, <<"1099">>>>,
      <<<<"y", "e", "n">>, <<"¥">>>>, <<<<"y", "e", "n", ";">>, <<"¥">>>>,
      <<<<"y", "f", "r", ";">>, <<"120118">>>>, <<<<"y", "i", "c", "y", ";">>, <<"1111">>>>,
      <<<<"y", "o", "p", "f", ";">>, <<"120170">>>>,
      <<<<"y", "s", "c", "r", ";">>, <<"120014">>>>,
      <<<<"y", "u", "c", "y", ";">>, <<"1102">>>>, <<<<"y", "u", "m", "l">>, <<"ÿ">>>>,
      <<<<"y", "u", "m", "l", ";">>, <<"ÿ">>>>,
      <<<<"z", "a", "c", "u", "t", "e", ";">>, <<"378">>>>,
      <<<<"z", "c", "a", "r", "o", "n", ";">>, <<"382">>>>,
      <<<<"z", "c", "y", ";">>, <<"1079">>>>, <<<<"z", "d", "o", "t", ";">>, <<"380">>>>,
      <<<<"z", "e", "e", "t", "r", "f", ";">>, <<"8488">>>>,
      <<<<"z", "e", "t", "a", ";">>, <<"ζ">>>>, <<<<"z", "f", "r", ";">>, <<"120119">>>>,
      <<<<"z", "h", "c", "y", ";">>, <<"1078">>>>,
      <<<<"z", "i", "g", "r", "a", "r", "r", ";">>, <<"⇝">>>>,
      <<<<"z", "o", "p", "f", ";">>, <<"120171">>>>,
      <<<<"z", "s", "c", "r", ";">>, <<"120015">>>>, <<<<"z", "w", "j", ";">>, <<"8205">>>>,
      <<<<"z", "w", "n", "j", ";">>, <<"8204">>>> }
Html5Names == { p[1] : p \in Html5Pairs }

Html5 == [nm \in Html5Names |-> (CHOOSE p \in Html5Pairs : p[1] = nm)[2]]

Html5Value(nm) == Html5[nm]

\* html._invalid_charrefs: the numbers replaced by a fixed text
InvalidCharrefPairs ==
    { <<0, <<"�">>>>, <<13, <<"\r">>>>, <<128, <<"€">>>>, <<129, <<"">>>>,
      <<130, <<"8218">>>>, <<131, <<"ƒ">>>>, <<132, <<"8222">>>>, <<133, <<"8230">>>>,
      <<134, <<"8224">>>>, <<135, <<"8225">>>>, <<136, <<"ˆ">>>>, <<137, <<"8240">>>>,
      <<138, <<"352">>>>, <<139, <<"8249">>>>, <<140, <<"338">>>>, <<141, <<"">>>>,
      <<142, <<"381">>>>, <<143, <<"">>>>, <<144, <<"">>>>, <<145, <<"8216">>>>,
      <<146, <<"8217">>>>, <<147, <<"8220">>>>, <<148, <<"8221">>>>, <<149, <<"8226">>>>,
      <<150, <<"8211">>>>, <<151, <<"8212">>>>, <<152, <<"˜">>>>, <<153, <<"8482">>>>,
      <<154, <<"353">>>>, <<155, <<"8250">>>>, <<156, <<"339">>>>, <<157, <<"">>>>,
      <<158, <<"382">>>>, <<159, <<"376">>>> }
InvalidCharrefs ==
    [n \in { p[1] : p \in InvalidCharrefPairs } |->
        (CHOOSE p \in InvalidCharrefPairs : p[1] = n)[2]]

\* html._invalid_codepoints: the numbers replaced by the empty text
InvalidCodepoints ==
    (1..8) \cup (14..31) \cup (127..159) \cup (64976..65007) \cup (65534..65535) \cup (131070..131071) \cup (196606..196607) \cup (262142..262143) \cup (327678..327679) \cup (393214..393215) \cup (458750..458751) \cup (524286..524287) \cup (589822..589823) \cup (655358..655359) \cup (720894..720895) \cup (786430..786431) \cup (851966..851967) \cup (917502..917503) \cup (983038..983039) \cup (1048574..1048575) \cup (1114110..1114111)
        \cup {11}
\* chr(): ChrPairs lists every character the model writes as itself, with its
\* code point; every other character is the chunk of its decimal code point,
\* whichever way it is produced (the tables above follow the same rule)
ChrPairs ==
    { <<9, "\t">>, <<10, "\n">>, <<11, "">>, <<12, "\f">>, <<13, "\r">>, <<28, "">>,
      <<29, "">>, <<30, "">>, <<31, "">>, <<32, " ">>, <<33, "!">>, <<34, "\"">>,
      <<35, "#">>, <<36, "$">>, <<37, "%">>, <<38, "&">>, <<39, "'">>, <<40, "(">>,
      <<41, ")">>, <<42, "*">>, <<43, "+">>, <<44, ",">>, <<45, "-">>, <<46, ".">>,
      <<47, "/">>, <<48, "0">>, <<49, "1">>, <<50, "2">>, <<51, "3">>, <<52, "4">>,
      <<53, "5">>, <<54, "6">>, <<55, "7">>, <<56, "8">>, <<57, "9">>, <<58, ":">>,
      <<59, ";">>, <<60, "<">>, <<61, "=">>, <<62, ">">>, <<63, "?">>, <<64, "@">>,
      <<65, "A">>, <<66, "B">>, <<67, "C">>, <<68, "D">>, <<69, "E">>, <<70, "F">>,
      <<71, "G">>, <<72, "H">>, <<73, "I">>, <<74, "J">>, <<75, "K">>, <<76, "L">>,
      <<77, "M">>, <<78, "N">>, <<79, "O">>, <<80, "P">>, <<81, "Q">>, <<82, "R">>,
      <<83, "S">>, <<84, "T">>, <<85, "U">>, <<86, "V">>, <<87, "W">>, <<88, "X">>,
      <<89, "Y">>, <<90, "Z">>, <<91, "[">>, <<92, "\\">>, <<93, "]">>, <<94, "^">>,
      <<95, "_">>, <<97, "a">>, <<98, "b">>, <<99, "c">>, <<100, "d">>, <<101, "e">>,
      <<102, "f">>, <<103, "g">>, <<104, "h">>, <<105, "i">>, <<106, "j">>, <<107, "k">>,
      <<108, "l">>, <<109, "m">>, <<110, "n">>, <<111, "o">>, <<112, "p">>, <<113, "q">>,
      <<114, "r">>, <<115, "s">>, <<116, "t">>, <<117, "u">>, <<118, "v">>, <<119, "w">>,
      <<120, "x">>, <<121, "y">>, <<122, "z">>, <<123, "{">>, <<124, "|">>, <<125, "}">>,
      <<126, "~">>, <<129, "">>, <<133, "">>, <<141, "">>, <<143, "">>, <<144, "">>,
      <<157, "">>, <<160, " ">>, <<161, "¡">>, <<162, "¢">>, <<163, "£">>, <<164, "¤">>,
      <<165, "¥">>, <<166, "¦">>, <<167, "§">>, <<168, "¨">>, <<169, "©">>, <<170, "ª">>,
      <<171, "«">>, <<172, "¬">>, <<173, "­">>, <<174, "®">>, <<175, "¯">>, <<176, "°">>,
      <<177, "±">>, <<178, "²">>, <<179, "³">>, <<180, "´">>, <<181, "µ">>, <<182, "¶">>,
      <<183, "·">>, <<184, "¸">>, <<185, "¹">>, <<186, "º">>, <<187, "»">>, <<188, "¼">>,
      <<189, "½">>, <<190, "¾">>, <<191, "¿">>, <<192, "À">>, <<193, "Á">>, <<194, "Â">>,
      <<195, "Ã">>, <<196, "Ä">>, <<197, "Å">>, <<198, "Æ">>, <<199, "Ç">>, <<200, "È">>,
      <<201, "É">>, <<202, "Ê">>, <<203, "Ë">>, <<204, "Ì">>, <<205, "Í">>, <<206, "Î">>,
      <<207, "Ï">>, <<208, "Ð">>, <<209, "Ñ">>, <<210, "Ò">>, <<211, "Ó">>, <<212, "Ô">>,
      <<213, "Õ">>, <<214, "Ö">>, <<215, "×">>, <<216, "Ø">>, <<217, "Ù">>, <<218, "Ú">>,
      <<219, "Û">>, <<220, "Ü">>, <<221, "Ý">>, <<222, "Þ">>, <<223, "ß">>, <<224, "à">>,
      <<225, "á">>, <<226, "â">>, <<227, "ã">>, <<228, "ä">>, <<229, "å">>, <<230, "æ">>,
      <<231, "ç">>, <<232, "è">>, <<233, "é">>, <<234, "ê">>, <<235, "ë">>, <<236, "ì">>,
      <<237, "í">>, <<238, "î">>, <<239, "ï">>, <<240, "ð">>, <<241, "ñ">>, <<242, "ò">>,
      <<243, "ó">>, <<244, "ô">>, <<245, "õ">>, <<246, "ö">>, <<247, "÷">>, <<248, "ø">>,
      <<249, "ù">>, <<250, "ú">>, <<251, "û">>, <<252, "ü">>, <<253, "ý">>, <<254, "þ">>,
      <<255, "ÿ">>, <<402, "ƒ">>, <<437, "Ƶ">>, <<501, "ǵ">>, <<710, "ˆ">>, <<711, "ˇ">>,
      <<728, "˘">>, <<729, "˙">>, <<730, "˚">>, <<731, "˛">>, <<732, "˜">>, <<733, "˝">>,
      <<913, "Α">>, <<914, "Β">>, <<915, "Γ">>, <<916, "Δ">>, <<917, "Ε">>, <<918, "Ζ">>,
      <<919, "Η">>, <<920, "Θ">>, <<921, "Ι">>, <<922, "Κ">>, <<923, "Λ">>, <<924, "Μ">>,
      <<925, "Ν">>, <<926, "Ξ">>, <<927, "Ο">>, <<928, "Π">>, <<929, "Ρ">>, <<931, "Σ">>,
      <<932, "Τ">>, <<933, "Υ">>, <<934, "Φ">>, <<935, "Χ">>, <<936, "Ψ">>, <<937, "Ω">>,
      <<945, "α">>, <<946, "β">>, <<947, "γ">>, <<948, "δ">>, <<949, "ε">>, <<950, "ζ">>,
      <<951, "η">>, <<952, "θ">>, <<953, "ι">>, <<954, "κ">>, <<955, "λ">>, <<956, "μ">>,
      <<957, "ν">>, <<958, "ξ">>, <<959, "ο">>, <<960, "π">>, <<961, "ρ">>, <<962, "ς">>,
      <<963, "σ">>, <<964, "τ">>, <<965, "υ">>, <<966, "φ">>, <<967, "χ">>, <<968, "ψ">>,
      <<969, "ω">>, <<977, "ϑ">>, <<978, "ϒ">>, <<981, "ϕ">>, <<982, "ϖ">>, <<988, "Ϝ">>,
      <<989, "ϝ">>, <<1008, "ϰ">>, <<1009, "ϱ">>, <<1013, "ϵ">>, <<1014, "϶">>, <<1425, "֑">>,
      <<1426, "֒">>, <<1427, "֓">>, <<1428, "֔">>, <<1429, "֕">>, <<1430, "֖">>, <<1431, "֗">>,
      <<1432, "֘">>, <<1433, "֙">>, <<1434, "֚">>, <<1435, "֛">>, <<1436, "֜">>, <<1437, "֝">>,
      <<1438, "֞">>, <<1439, "֟">>, <<1440, "֠">>, <<1441, "֡">>, <<1442, "֢">>, <<1443, "֣">>,
      <<1444, "֤">>, <<1445, "֥">>, <<1446, "֦">>, <<1447, "֧">>, <<1448, "֨">>, <<1449, "֩">>,
      <<1450, "֪">>, <<1451, "֫">>, <<1452, "֬">>, <<1453, "֭">>, <<1454, "֮">>, <<1455, "֯">>,
      <<1456, "ְ">>, <<1457, "ֱ">>, <<1458, "ֲ">>, <<1459, "ֳ">>, <<1460, "ִ">>, <<1461, "ֵ">>,
      <<1462, "ֶ">>, <<1463, "ַ">>, <<1464, "ָ">>, <<1465, "ֹ">>, <<1466, "ֺ">>, <<1467, "ֻ">>,
      <<1468, "ּ">>, <<1469, "ֽ">>, <<1470, "־">>, <<1471, "ֿ">>, <<1472, "׀">>, <<1473, "ׁ">>,
      <<1474, "ׂ">>, <<1475, "׃">>, <<1476, "ׄ">>, <<1477, "ׅ">>, <<1478, "׆">>, <<1479, "ׇ">>,
      <<1480, "׈">>, <<1481, "׉">>, <<1482, "׊">>, <<1483, "׋">>, <<1484, "׌">>, <<1485, "׍">>,
      <<1486, "׎">>, <<1487, "׏">>, <<1488, "א">>, <<1489, "ב">>, <<1490, "ג">>, <<1491, "ד">>,
      <<1492, "ה">>, <<1493, "ו">>, <<1494, "ז">>, <<1495, "ח">>, <<1496, "ט">>, <<1497, "י">>,
      <<1498, "ך">>, <<1499, "כ">>, <<1500, "ל">>, <<1501, "ם">>, <<1502, "מ">>, <<1503, "ן">>,
      <<1504, "נ">>, <<1505, "ס">>, <<1506, "ע">>, <<1507, "ף">>, <<1508, "פ">>, <<1509, "ץ">>,
      <<1510, "צ">>, <<1511, "ק">>, <<1512, "ר">>, <<1513, "ש">>, <<1514, "ת">>, <<1515, "׫">>,
      <<1516, "׬">>, <<1517, "׭">>, <<1518, "׮">>, <<1519, "ׯ">>, <<1520, "װ">>, <<1521, "ױ">>,
      <<1522, "ײ">>, <<1523, "׳">>, <<1524, "״">>, <<1525, "׵">>, <<1526, "׶">>, <<1527, "׷">>,
      <<1528, "׸">>, <<1529, "׹">>, <<1530, "׺">>, <<1531, "׻">>, <<1532, "׼">>, <<1533, "׽">>,
      <<1534, "׾">>, <<1535, "׿">>, <<5760, " ">>, <<8362, "₪">>, <<8364, "€">>, <<8402, "⃒">>,
      <<8411, "⃛">>, <<8412, "⃜">>, <<8421, "⃥">>, <<8592, "←">>, <<8593, "↑">>, <<8594, "→">>,
      <<8595, "↓">>, <<8596, "↔">>, <<8597, "↕">>, <<8598, "↖">>, <<8599, "↗">>, <<8600, "↘">>,
      <<8601, "↙">>, <<8602, "↚">>, <<8603, "↛">>, <<8605, "↝">>, <<8606, "↞">>, <<8607, "↟">>,
      <<8608, "↠">>, <<8609, "↡">>, <<8610, "↢">>, <<8611, "↣">>, <<8612, "↤">>, <<8613, "↥">>,
      <<8614, "↦">>, <<8615, "↧">>, <<8617, "↩">>, <<8618, "↪">>, <<8619, "↫">>, <<8620, "↬">>,
      <<8621, "↭">>, <<8622, "↮">>, <<8624, "↰">>, <<8625, "↱">>, <<8626, "↲">>, <<8627, "↳">>,
      <<8629, "↵">>, <<8630, "↶">>, <<8631, "↷">>, <<8634, "↺">>, <<8635, "↻">>, <<8636, "↼">>,
      <<8637, "↽">>, <<8638, "↾">>, <<8639, "↿">>, <<8640, "⇀">>, <<8641, "⇁">>, <<8642, "⇂">>,
      <<8643, "⇃">>, <<8644, "⇄">>, <<8645, "⇅">>, <<8646, "⇆">>, <<8647, "⇇">>, <<8648, "⇈">>,
      <<8649, "⇉">>, <<8650, "⇊">>, <<8651, "⇋">>, <<8652, "⇌">>, <<8653, "⇍">>, <<8654, "⇎">>,
      <<8655, "⇏">>, <<8656, "⇐">>, <<8657, "⇑">>, <<8658, "⇒">>, <<8659, "⇓">>, <<8660, "⇔">>,
      <<8661, "⇕">>, <<8662, "⇖">>, <<8663, "⇗">>, <<8664, "⇘">>, <<8665, "⇙">>, <<8666, "⇚">>,
      <<8667, "⇛">>, <<8669, "⇝">>, <<8676, "⇤">>, <<8677, "⇥">>, <<8693, "⇵">>, <<8701, "⇽">>,
      <<8702, "⇾">>, <<8703, "⇿">>, <<8832, "⊀">>, <<8833, "⊁">>, <<8834, "⊂">>, <<8835, "⊃">>,
      <<8836, "⊄">>, <<8837, "⊅">>, <<8838, "⊆">>, <<8839, "⊇">>, <<8840, "⊈">>, <<8841, "⊉">>,
      <<8842, "⊊">>, <<8843, "⊋">>, <<8845, "⊍">>, <<8846, "⊎">>, <<8847, "⊏">>, <<8848, "⊐">>,
      <<8849, "⊑">>, <<8850, "⊒">>, <<8851, "⊓">>, <<8852, "⊔">>, <<8853, "⊕">>, <<8854, "⊖">>,
      <<8855, "⊗">>, <<8856, "⊘">>, <<8857, "⊙">>, <<8858, "⊚">>, <<8859, "⊛">>, <<8861, "⊝">>,
      <<8862, "⊞">>, <<8863, "⊟">>, <<8864, "⊠">>, <<8865, "⊡">>, <<8866, "⊢">>, <<8867, "⊣">>,
      <<8868, "⊤">>, <<8869, "⊥">>, <<8871, "⊧">>, <<8872, "⊨">>, <<8873, "⊩">>, <<8874, "⊪">>,
      <<8875, "⊫">>, <<8876, "⊬">>, <<8877, "⊭">>, <<8878, "⊮">>, <<8879, "⊯">>, <<8880, "⊰">>,
      <<8882, "⊲">>, <<8883, "⊳">>, <<8884, "⊴">>, <<8885, "⊵">>, <<8886, "⊶">>, <<8887, "⊷">>,
      <<8888, "⊸">>, <<8889, "⊹">>, <<8890, "⊺">>, <<8891, "⊻">>, <<8893, "⊽">>, <<8894, "⊾">>,
      <<8895, "⊿">>, <<8896, "⋀">>, <<8897, "⋁">>, <<8898, "⋂">>, <<8899, "⋃">>, <<8900, "⋄">>,
      <<8901, "⋅">>, <<8902, "⋆">>, <<8903, "⋇">>, <<8904, "⋈">>, <<8905, "⋉">>, <<8906, "⋊">>,
      <<8907, "⋋">>, <<8908, "⋌">>, <<8909, "⋍">>, <<8910, "⋎">>, <<8911, "⋏">>, <<8912, "⋐">>,
      <<8913, "⋑">>, <<8914, "⋒">>, <<8915, "⋓">>, <<8916, "⋔">>, <<8917, "⋕">>, <<8918, "⋖">>,
      <<8919, "⋗">>, <<8920, "⋘">>, <<8921, "⋙">>, <<8922, "⋚">>, <<8923, "⋛">>, <<8926, "⋞">>,
      <<8927, "⋟">>, <<8928, "⋠">>, <<8929, "⋡">>, <<8930, "⋢">>, <<8931, "⋣">>, <<8934, "⋦">>,
      <<8935, "⋧">>, <<8936, "⋨">>, <<8937, "⋩">>, <<8938, "⋪">>, <<8939, "⋫">>, <<8940, "⋬">>,
      <<8941, "⋭">>, <<8942, "⋮">>, <<8943, "⋯">>, <<8944, "⋰">>, <<8945, "⋱">>, <<8946, "⋲">>,
      <<8947, "⋳">>, <<8948, "⋴">>, <<8949, "⋵">>, <<8950, "⋶">>, <<8951, "⋷">>, <<8953, "⋹">>,
      <<8954, "⋺">>, <<8955, "⋻">>, <<8956, "⋼">>, <<8957, "⋽">>, <<8958, "⋾">>, <<9136, "⎰">>,
      <<9137, "⎱">>, <<9140, "⎴">>, <<9141, "⎵">>, <<9142, "⎶">>, <<9180, "⏜">>, <<9181, "⏝">>,
      <<9182, "⏞">>, <<9183, "⏟">>, <<9186, "⏢">>, <<9191, "⏧">>, <<9416, "Ⓢ">>, <<9600, "▀">>,
      <<9604, "▄">>, <<9608, "█">>, <<9617, "░">>, <<9618, "▒">>, <<9619, "▓">>, <<9633, "□">>,
      <<9642, "▪">>, <<9643, "▫">>, <<9645, "▭">>, <<9646, "▮">>, <<9649, "▱">>, <<9651, "△">>,
      <<9652, "▴">>, <<9653, "▵">>, <<9656, "▸">>, <<9657, "▹">>, <<9661, "▽">>, <<9662, "▾">>,
      <<9663, "▿">>, <<9666, "◂">>, <<9667, "◃">>, <<9674, "◊">>, <<9675, "○">>, <<9708, "◬">>,
      <<9711, "◯">>, <<9720, "◸">>, <<9721, "◹">>, <<9722, "◺">>, <<9723, "◻">>, <<9724, "◼">>,
      <<10184, "⟈">>, <<10185, "⟉">>, <<10214, "⟦">>, <<10215, "⟧">>, <<10216, "⟨">>,
      <<10217, "⟩">>, <<10218, "⟪">>, <<10219, "⟫">>, <<10220, "⟬">>, <<10221, "⟭">>,
      <<10229, "⟵">>, <<10230, "⟶">>, <<10231, "⟷">>, <<10232, "⟸">>, <<10233, "⟹">>,
      <<10234, "⟺">>, <<10236, "⟼">>, <<10239, "⟿">>, <<10629, "⦅">>, <<10630, "⦆">>,
      <<10635, "⦋">>, <<10636, "⦌">>, <<10637, "⦍">>, <<10638, "⦎">>, <<10639, "⦏">>,
      <<10640, "⦐">>, <<10641, "⦑">>, <<10642, "⦒">>, <<10643, "⦓">>, <<10644, "⦔">>,
      <<10645, "⦕">>, <<10646, "⦖">>, <<10650, "⦚">>, <<10652, "⦜">>, <<10653, "⦝">>,
      <<10660, "⦤">>, <<10661, "⦥">>, <<10662, "⦦">>, <<10663, "⦧">>, <<10664, "⦨">>,
      <<10665, "⦩">>, <<10666, "⦪">>, <<10667, "⦫">>, <<10668, "⦬">>, <<10669, "⦭">>,
      <<10670, "⦮">>, <<10671, "⦯">>, <<10672, "⦰">>, <<10673, "⦱">>, <<10674, "⦲">>,
      <<10675, "⦳">>, <<10676, "⦴">>, <<10677, "⦵">>, <<10678, "⦶">>, <<10679, "⦷">>,
      <<10681, "⦹">>, <<10683, "⦻">>, <<10684, "⦼">>, <<10686, "⦾">>, <<10687, "⦿">>,
      <<10688, "⧀">>, <<10689, "⧁">>, <<10690, "⧂">>, <<10691, "⧃">>, <<10692, "⧄">>,
      <<10693, "⧅">>, <<10697, "⧉">>, <<10701, "⧍">>, <<10702, "⧎">>, <<10703, "⧏">>,
      <<10704, "⧐">>, <<10716, "⧜">>, <<10717, "⧝">>, <<10718, "⧞">>, <<10723, "⧣">>,
      <<10724, "⧤">>, <<10725, "⧥">>, <<10731, "⧫">>, <<10740, "⧴">>, <<10742, "⧶">>,
      <<10880, "⪀">>, <<10881, "⪁">>, <<10882, "⪂">>, <<10883, "⪃">>, <<10884, "⪄">>,
      <<10885, "⪅">>, <<10886, "⪆">>, <<10887, "⪇">>, <<10888, "⪈">>, <<10889, "⪉">>,
      <<10890, "⪊">>, <<10891, "⪋">>, <<10892, "⪌">>, <<10893, "⪍">>, <<10894, "⪎">>,
      <<10895, "⪏">>, <<10896, "⪐">>, <<10897, "⪑">>, <<10898, "⪒">>, <<10899, "⪓">>,
      <<10900, "⪔">>, <<10901, "⪕">>, <<10902, "⪖">>, <<10903, "⪗">>, <<10904, "⪘">>,
      <<10905, "⪙">>, <<10906, "⪚">>, <<10909, "⪝">>, <<10910, "⪞">>, <<10911, "⪟">>,
      <<10912, "⪠">>, <<10913, "⪡">>, <<10914, "⪢">>, <<10916, "⪤">>, <<10917, "⪥">>,
      <<10918, "⪦">>, <<10919, "⪧">>, <<10920, "⪨">>, <<10921, "⪩">>, <<10922, "⪪">>,
      <<10923, "⪫">>, <<10924, "⪬">>, <<10925, "⪭">>, <<10926, "⪮">>, <<10927, "⪯">>,
      <<10928, "⪰">>, <<10931, "⪳">>, <<10932, "⪴">>, <<10933, "⪵">>, <<10934, "⪶">>,
      <<10935, "⪷">>, <<10936, "⪸">>, <<10937, "⪹">>, <<10938, "⪺">>, <<10939, "⪻">>,
      <<10940, "⪼">>, <<10941, "⪽">>, <<10942, "⪾">>, <<10943, "⪿">>, <<10944, "⫀">>,
      <<10945, "⫁">>, <<10946, "⫂">>, <<10947, "⫃">>, <<10948, "⫄">>, <<10949, "⫅">>,
      <<10950, "⫆">>, <<10951, "⫇">>, <<10952, "⫈">>, <<10955, "⫋">>, <<10956, "⫌">>,
      <<10959, "⫏">>, <<10960, "⫐">>, <<10961, "⫑">>, <<10962, "⫒">>, <<10963, "⫓">>,
      <<10964, "⫔">>, <<10965, "⫕">>, <<10966, "⫖">>, <<10967, "⫗">>, <<10968, "⫘">>,
      <<10969, "⫙">>, <<10970, "⫚">>, <<10971, "⫛">>, <<10980, "⫤">>, <<10982, "⫦">>,
      <<10983, "⫧">>, <<10984, "⫨">>, <<10985, "⫩">>, <<10987, "⫫">>, <<10988, "⫬">>,
      <<10989, "⫭">>, <<10990, "⫮">>, <<10991, "⫯">>, <<10992, "⫰">>, <<10993, "⫱">>,
      <<10994, "⫲">>, <<10995, "⫳">>, <<11005, "⫽">>, <<65533, "�">> }
ChrTable == [n \in { p[1] : p \in ChrPairs } |-> (CHOOSE p \in ChrPairs : p[1] = n)[2]]

chr(num) == IF num \in DOMAIN ChrTable THEN ChrTable[num] ELSE ToString(num)

HexDigits ==
    <<"0", "1", "2", "3", "4", "5", "6", "7", "8", "9", "a", "b", "c", "d", "e", "f">>
HexUpper == <<"A", "B", "C", "D", "E", "F">>

\* the value of the digit c, or -1 when c is not a hexadecimal digit
HexValue(c) ==
    IF \E k \in 1..16 : HexDigits[k] = c THEN (CHOOSE k \in 1..16 : HexDigits[k] = c) - 1
    ELSE IF \E k \in 1..6 : HexUpper[k] = c THEN (CHOOSE k \in 1..6 : HexUpper[k] = c) + 9
    ELSE -1

IsDigit(c, base) == HexValue(c) >= 0 /\ HexValue(c) < base

\* the least of the positions at, or n when there is none
FirstAt(at, n) == IF at = {} THEN n ELSE CHOOSE k \in at : \A j \in at : k <= j

\* length of the run [0-9]+ (base 10) or [0-9a-fA-F]+ (base 16) starting at i
DigitRun(s, i, base) ==
    FirstAt({k \in i..Len(s) : ~IsDigit(s[k], base)}, Len(s) + 1) - i

\* sys.get_int_max_str_digits(): the longest decimal text int() converts
IntMaxStrDigits == 4300

IntLimitError(n) ==
    <<"Exceeds the limit (4300 digits) for integer string conversion: value has ">>
        \o str_int(n) \o <<" digits; use sys.set_int_max_str_digits() to increase the limit">>

\* the value of the digits s[i:], most significant first
RECURSIVE int_from(_, _, _, _)
int_from(s, i, base, acc) ==
    IF i > Len(s) THEN acc ELSE int_from(s, i + 1, base, acc * base + HexValue(s[i]))

\* int(s[i:], base) of a run of digits: ValueError for a decimal text of more
\* than 4300 digits (no limit in base 16); every number above 0x10FFFF is
\* kept as 0x110000, since _replace_charref replaces all of them by U+FFFD
int(s, i, base) ==
    LET z == FirstAt({k \in i..Len(s) : s[k] # "0"}, Len(s) + 1)
    IN  IF base = 10 /\ Len(s) - i + 1 > IntMaxStrDigits
        THEN Raised(IntLimitError(Len(s) - i + 1))
        ELSE IF Len(s) - z + 1 > 7 THEN Returned(1114112)
        ELSE LET v == int_from(s, z, base, 0)
             IN  Returned(IF v > 1114111 THEN 1114112 ELSE v)

CharrefStop == {"\t", "\n", "\f", " ", "<", "&", "#", ";"}

\* length of the run [^\t\n\f <&#;]{1,32} starting at position i
RECURSIVE NameRun(_, _, _)
NameRun(s, i, n) ==
    IF i > Len(s) \/ n >= 32 \/ s[i] \in CharrefStop THEN n
    ELSE NameRun(s, i + 1, n + 1)

\* length of the match of (#[0-9]+;?|#[xX][0-9a-fA-F]+;?|[^\t\n\f <&#;]{1,32};?)
\* at position j, the position after a "&"; 0 when nothing matches
CharrefLen(s, j) ==
    LET Semi(k) == IF k <= Len(s) /\ s[k] = ";" THEN 1 ELSE 0
    IN  IF j > Len(s) THEN 0
        ELSE IF s[j] = "#"
        THEN LET d == DigitRun(s, j + 1, 10)
                 h == IF j + 1 <= Len(s) /\ s[j + 1] \in {"x", "X"}
                      THEN DigitRun(s, j + 2, 16) ELSE 0
             IN  IF d > 0 THEN 1 + d + Semi(j + 1 + d)
                 ELSE IF h > 0 THEN 2 + h + Semi(j + 2 + h)
                 ELSE 0
        ELSE LET run == NameRun(s, j, 0)
             IN  IF run = 0 THEN 0 ELSE run + Semi(j + run)

\* the longest proper prefix s[:x], x from len(s)-1 down to 2, that is a name
RECURSIVE PrefixName(_, _)
PrefixName(nm, x) ==
    IF x < 2 THEN 0
    ELSE IF SubSeq(nm, 1, x) \in Html5Names THEN x
    ELSE PrefixName(nm, x - 1)

\* _replace_charref on the text nm matched after the "&"
replace_charref(nm) ==
    IF nm[1] = "#"
    THEN LET body == IF nm[Len(nm)] = ";" THEN SubSeq(nm, 1, Len(nm) - 1) ELSE nm
             num == IF body[2] \in {"x", "X"} THEN int(body, 3, 16) ELSE int(body, 2, 10)
         IN  IF num.raised THEN num
             ELSE IF num.value \in DOMAIN InvalidCharrefs
             THEN Returned(InvalidCharrefs[num.value])
             ELSE IF (55296 <= num.value /\ num.value <= 57343) \/ num.value > 1114111
             THEN Returned(<<"�">>)
             ELSE IF num.value \in InvalidCodepoints THEN Returned(<<>>)
             ELSE Returned(<<chr(num.value)>>)
    ELSE IF nm \in Html5Names THEN Returned(Html5Value(nm))
    ELSE LET x == PrefixName(nm, Len(nm) - 1)
         IN  IF x > 0
             THEN Returned(Html5Value(SubSeq(nm, 1, x)) \o SubSeq(nm, x + 1, Len(nm)))
             ELSE Returned(<<"&">> \o nm)

\* _charref.sub(_replace_charref, s), from position i: the matches are
\* replaced from left to right, and the first exception ends the call; n is
\* the length of the match after s[i], head what replaces s[i] or the match
RECURSIVE UnescapeFrom(_, _)
UnescapeFrom(s, i) ==
    IF i > Len(s) THEN Returned(<<>>)
    ELSE LET n == IF s[i] = "&" THEN CharrefLen(s, i + 1) ELSE 0
             Then(head) ==
                 IF head.raised THEN head
                 ELSE LET rest == UnescapeFrom(s, IF n > 0 THEN i + n + 1 ELSE i + 1)
                      IN  IF rest.raised THEN rest ELSE Returned(head.value \o rest.value)
         IN  CHOOSE out \in
                 { Then(head) : head \in {IF n > 0 THEN replace_charref(SubSeq(s, i + 1, i + n))
                                          ELSE Returned(<<s[i]>>)} } : TRUE

html_unescape(s) == UnescapeFrom(s, 1)

\* ---- TAG_RE = <[^>]+> and TAG_RE.sub("", text)
\* position of the first ">" at or after i, or 0
RECURSIVE NextGt(_, _)
NextGt(s, i) ==
    IF i > Len(s) THEN 0 ELSE IF s[i] = ">" THEN i ELSE NextGt(s, i + 1)

\* end position of a TAG_RE match starting at i, or 0
TagMatchEnd(s, i) ==
    IF s[i] # "<" THEN 0
    ELSE LET j == NextGt(s, i + 1) IN IF j > i + 1 THEN j ELSE 0

RECURSIVE TagSubFrom(_, _)
TagSubFrom(s, i) ==
    IF i > Len(s) THEN <<>>
    ELSE IF TagMatchEnd(s, i) > 0 THEN TagSubFrom(s, TagMatchEnd(s, i) + 1)
    ELSE <<s[i]>> \o TagSubFrom(s, i + 1)

TAG_RE_sub(s) == TagSubFrom(s, 1)

MarkerPe == <<"{", "פ", "}">>
MarkerSamekh == <<"{", "ס", "}">>

\* the cleaner without its final strip()
clean_hebrew_verse_no_strip(raw) ==
    LET Then(text) ==
            IF text.raised THEN text
            ELSE Returned(replace(replace(TAG_RE_sub(text.value), MarkerPe, <<>>),
                                  MarkerSamekh, <<>>))
    IN  CHOOSE out \in { Then(text) : text \in {html_unescape(raw)} } : TRUE

\* text is html.unescape(raw), whose ValueError leaves the function
clean_hebrew_verse(raw) ==
    LET Then(text) ==
            IF text.raised THEN text
            ELSE Returned(strip(replace(replace(TAG_RE_sub(text.value), MarkerPe, <<>>),
                                        MarkerSamekh, <<>>)))
    IN  CHOOSE out \in { Then(text) : text \in {html_unescape(raw)} } : TRUE

\* ---- build_stanzas
RECURSIVE StanzasFrom(_, _, _)
StanzasFrom(verses, i, step) ==
    IF i >= NumVerses THEN <<>>
    ELSE <<Slice(verses, i, i + step)>> \o StanzasFrom(verses, i + step, step)

build_stanzas_short(verses) == StanzasFrom(verses, 0, StanzaLen - 1)

build_stanzas(verses) == StanzasFrom(verses, 0, StanzaLen)

\* ---- get_stanzas_for_name
final_to_regular_partial(ch) ==
    CASE ch = "ם" -> "מ"
      [] ch = "ן" -> "נ"
      [] ch = "ף" -> "פ"
      [] ch = "ץ" -> "צ"
      [] OTHER -> ch

\* final_to_regular.get(ch, ch)
final_to_regular_get(ch) ==
    CASE ch = "ך" -> "כ"
      [] ch = "ם" -> "מ"
      [] ch = "ן" -> "נ"
      [] ch = "ף" -> "פ"
      [] ch = "ץ" -> "צ"
      [] OTHER -> ch

\* the for-loop over the characters of the stripped name, from position i;
\* stop_at_space = TRUE is the loop with break in place of continue
RECURSIVE SectionsFrom(_, _, _, _)
SectionsFrom(name, i, stanzas, stop_at_space) ==
    IF i > Len(name) THEN <<>>
    ELSE IF name[i] = " "
    THEN (IF stop_at_space THEN <<>> ELSE SectionsFrom(name, i + 1, stanzas, stop_at_space))
    ELSE LET letter == final_to_regular_get(name[i])
             idx == letter_to_index_get(letter)
         IN  (IF idx # -1 THEN << <<letter, stanzas[idx + 1]>> >> ELSE <<>>)
             \o SectionsFrom(name, i + 1, stanzas, stop_at_space)

get_stanzas_for_name_break(name, stanzas) == SectionsFrom(strip(name), 1, stanzas, TRUE)

get_stanzas_for_name(name, stanzas) == SectionsFrom(strip(name), 1, stanzas, FALSE)

\* ------------------------------------------------ harness of pure functions
SeqsUpTo(S, n) == UNION {[1..k -> S] : k \in 0..n}

Flatten(toks) ==
    LET RECURSIVE F(_)
        F(i) == IF i > Len(toks) THEN <<>> ELSE toks[i] \o F(i + 1)
    IN  F(1)

\* the machine, not started
Sessions == 1..MaxSessions

MachineStart ==
    /\ cache = <<>>
    /\ fetches = 0
    /\ pc = [s \in Sessions |-> "idle"]
    /\ loaded = [s \in Sessions |-> <<>>]
    /\ fetched = <<>>
    /\ halted = FALSE
    /\ verses_119 = <<>>
    /\ stanzas_119 = <<>>
    /\ errors = <<>>
    /\ format_choice_single = ""
    /\ single_resolved = <<>>
    /\ download = <<>>
    /\ uploaded = <<>>
    /\ batch_format = ""
    /\ batch_resolved = <<>>
    /\ zip_made = FALSE
    /\ zip_entries = <<>>
    /\ names = <<>>
    /\ reported = <<>>

MachineOff ==
    /\ pdf_renders = TRUE
    /\ MachineStart

PureOff ==
    /\ fpc = "off"
    /\ r_name = <<>> /\ r_stanzas = <<>> /\ r_sections = <<>>
    /\ c_tokens = <<>> /\ c_out = <<>> /\ c_error = <<>>
    /\ p_verses = <<>> /\ p_out = <<>>

\* the decimal reference of n digits "1"
DecimalRef(n) == <<"&", "#">> \o [k \in 1..n |-> "1"] \o <<";">>

\* ---- load_tehillim_119
\* What requests.get answers: a transport error, a non-success status, a JSON
\* payload without the "he" field, or a payload with n raw verses of variant v.
Variants == {1, 2}

\* the payload of 176 verses whose second verse holds a decimal character
\* reference of 4301 digits
Overlong == 3

\* raw verse k of variant v; its clean text is str(v) ":" str(k)
RawVerse(v, k) ==
    IF v = Overlong /\ k = 2 THEN <<"3", ":", "2">> \o DecimalRef(IntMaxStrDigits + 1)
    ELSE IF v % 2 = 1
    THEN <<"<", "b", ">">> \o str_int(v) \o <<":">> \o str_int(k) \o <<"{", "פ", "}">>
    ELSE <<" ">> \o str_int(v) \o <<":">> \o str_int(k)
             \o <<"&", "l", "t", ";", "b", "&", "g", "t", ";", "&", "n", "b", "s", "p", ";",
                  "{", "ס", "}">>

FetchOutcomes ==
    { [kind |-> k, n |-> 0, v |-> 0] : k \in {"transport_error", "http_error", "no_he"} }
        \cup { [kind |-> "ok", n |-> n, v |-> 1] : n \in {NumVerses - 1, NumVerses + 1} }
        \cup { [kind |-> "ok", n |-> NumVerses, v |-> v] : v \in Variants \cup {Overlong} }

\* the length check with < in place of !=
load_tehillim_119_too_many(outcome) ==
    IF outcome.kind # "ok" THEN Raised(<<outcome.kind>>)
    ELSE LET ListOf(results) ==
                 LET bad == {k \in 1..Len(results) : results[k].raised}
                     cleaned == [k \in 1..Len(results) |-> results[k].value]
                 IN  IF bad # {} THEN results[FirstAt(bad, 0)]
                     ELSE IF Len(cleaned) < NumVerses
                     THEN Raised(<<"Expected 176 verses, got ">> \o str_int(Len(cleaned)))
                     ELSE Returned(cleaned)
         IN  CHOOSE res \in
                 { ListOf(results) :
                     results \in {[k \in 1..outcome.n |->
                                      clean_hebrew_verse(RawVerse(outcome.v, k))]} } : TRUE

\* the body of load_tehillim_119, given what the request answers; results
\* holds what the cleaner gives for each raw verse, and the list comprehension
\* of line 47 ends at the first verse the cleaner raises on
load_tehillim_119(outcome) ==
    IF outcome.kind # "ok" THEN Raised(<<outcome.kind>>)
    ELSE LET ListOf(results) ==
                 LET bad == {k \in 1..Len(results) : results[k].raised}
                     cleaned == [k \in 1..Len(results) |-> results[k].value]
                 IN  IF bad # {} THEN results[FirstAt(bad, 0)]
                     ELSE IF Len(cleaned) # NumVerses
                     THEN Raised(<<"Expected 176 verses, got ">> \o str_int(Len(cleaned)))
                     ELSE Returned(cleaned)
         IN  CHOOSE res \in
                 { ListOf(results) :
                     results \in {[k \in 1..outcome.n |->
                                      clean_hebrew_verse(RawVerse(outcome.v, k))]} } : TRUE

\* @st.cache_data: a cache that never hits
CacheMiss == FALSE

\* @st.cache_data: the call is answered from the cache once a value is stored
CacheHit == cache # <<>>

\* what the body of load_tehillim_119 gives for each answer
LoadResults == [o \in FetchOutcomes |-> load_tehillim_119(o)]

\* ---- document builders
TitlePrefix == <<"תהילים פרק קיט עבור השם: ">>
NoLettersError(name) == <<"No valid Hebrew letters found in name '">> \o name \o <<"'.">>

\* for letter, stanza in sections: the paragraphs added to the DOCX, from
\* section i: the letter, the 8 pesukim, an empty paragraph
RECURSIVE DocxSections(_, _)
DocxSections(secs, i) ==
    IF i > Len(secs) THEN <<>>
    ELSE << <<secs[i][1]>> >> \o secs[i][2] \o << <<>> >> \o DocxSections(secs, i + 1)

\* for letter, stanza in sections: the cells written to the PDF, from section i
RECURSIVE PdfSections(_, _)
PdfSections(secs, i) ==
    IF i > Len(secs) THEN <<>>
    ELSE << <<secs[i][1]>> >> \o secs[i][2] \o PdfSections(secs, i + 1)

\* the builder without the check for an empty result
build_docx_bytes_for_name_unchecked(name, stanzas) ==
    LET sections == get_stanzas_for_name(name, stanzas)
    IN  Returned([fmt |-> "docx",
                  paragraphs |-> <<TitlePrefix \o name, <<>> >>
                                     \o DocxSections(sections, 1)])

build_docx_bytes_for_name(name, stanzas) ==
    LET sections == get_stanzas_for_name(name, stanzas)
    IN  IF sections = <<>> THEN Raised(NoLettersError(name))
        ELSE Returned([fmt |-> "docx",
                       paragraphs |-> <<TitlePrefix \o name, <<>> >>
                                          \o DocxSections(sections, 1)])

build_pdf_bytes_for_name(name, stanzas) ==
    LET sections == get_stanzas_for_name(name, stanzas)
    IN  IF sections = <<>> THEN Raised(NoLettersError(name))
        ELSE IF ~pdf_renders THEN Raised(<<"fpdf">>)
        ELSE Returned([fmt |-> "pdf",
                       paragraphs |-> <<TitlePrefix \o name>>
                                          \o PdfSections(sections, 1)])

build_bytes(fmt, name, stanzas) ==
    IF fmt = "DOCX" THEN build_docx_bytes_for_name(name, stanzas)
    ELSE build_pdf_bytes_for_name(name, stanzas)

Ext(fmt) == IF fmt = "DOCX" THEN <<"_Tehillim119.docx">> ELSE <<"_Tehillim119.pdf">>

\* name.replace(" ", "_") or "name"
SafeName(name) ==
    LET r == replace(name, <<" ">>, <<"_">>) IN IF r = <<>> THEN <<"name">> ELSE r

\* ---- single-name tab
\* what the tab shows when the button is not clicked
NoSingleOutput == [errors |-> <<>>, resolved |-> <<>>, download |-> <<>>]

\* the branch of the clicked button (lines 191-219)
tab_single(single_name, fmt, stanzas) ==
    IF strip(single_name) = <<>>
    THEN [NoSingleOutput EXCEPT !.errors = << <<"Please enter a Hebrew name.">> >>]
    ELSE LET safe_name == SafeName(strip(single_name))
             res == build_bytes(fmt, single_name, stanzas)
         IN  IF res.raised
             THEN [NoSingleOutput EXCEPT !.resolved = <<single_name>>,
                                         !.errors = << <<"Error: ">> \o res.error >>]
             ELSE [NoSingleOutput EXCEPT
                      !.resolved = <<single_name>>,
                      !.download = << [file_name |-> safe_name \o Ext(fmt),
                                       data |-> res.value] >>]

\* ---- Excel tab
\* A cell of the Name column is missing (NaN), a string or an integer.
NaN == [kind |-> "nan", text |-> <<>>, num |-> 0]
StrCell(t) == [kind |-> "str", text |-> t, num |-> 0]
IntCell(n) == [kind |-> "int", text |-> <<>>, num |-> n]

\* str(n) of a cell that is not NaN
str_cell(c) == IF c.kind = "int" THEN str_int(c.num) ELSE c.text

NotNaN(c) == c.kind # "nan"
NonEmpty(t) == t # <<>>

\* names = [str(n).strip() for n in df["Name"].dropna()]; names = [n for n in names if n]
batch_names(cells) ==
    LET kept == SelectSeq(cells, NotNaN)
    IN  SelectSeq([i \in 1..Len(kept) |-> strip(str_cell(kept[i]))], NonEmpty)

\* the for-loop over names with its try/except, from position i;
\* abort = TRUE is the loop that stops at the first exception
RECURSIVE BatchFrom(_, _, _, _, _)
BatchFrom(nms, i, fmt, stanzas, abort) ==
    IF i > Len(nms) THEN [entries |-> <<>>, calls |-> <<>>]
    ELSE LET name == nms[i]
             res == build_bytes(fmt, name, stanzas)
             rest == IF res.raised /\ abort THEN [entries |-> <<>>, calls |-> <<>>]
                     ELSE BatchFrom(nms, i + 1, fmt, stanzas, abort)
         IN  [entries |->
                 (IF res.raised THEN <<>>
                  ELSE << [file_name |-> SafeName(name) \o Ext(fmt), data |-> res.value] >>)
                 \o rest.entries,
              calls |-> <<name>> \o rest.calls]

batch_loop_abort(nms, fmt, stanzas) == BatchFrom(nms, 1, fmt, stanzas, TRUE)

batch_loop(nms, fmt, stanzas) == BatchFrom(nms, 1, fmt, stanzas, FALSE)

\* what the tab shows without a file, or with a good file and no click
NoTabOutput ==
    [errors |-> <<>>, resolved |-> <<>>, zip_made |-> FALSE, zip_entries |-> <<>>,
     names |-> <<>>, reported |-> <<>>]

\* f"Could not read Excel file: {e}", e the exception of pd.read_excel
ReadError(file) == << <<"Could not read Excel file: ">> \o file.error >>
NoColumnError == << <<"The Excel file must contain a column named 'Name'.">> >>
NoNamesError == << <<"No valid names found in the 'Name' column.">> >>

\* the button branch: the names, the archive, the success message
generate_all(cells, fmt, stanzas) ==
    LET nms == batch_names(cells)
    IN  IF nms = <<>> THEN [NoTabOutput EXCEPT !.errors = NoNamesError]
        ELSE LET out == batch_loop(nms, fmt, stanzas)
             IN  [NoTabOutput EXCEPT !.names = nms,
                                     !.resolved = out.calls,
                                     !.zip_made = TRUE,
                                     !.zip_entries = out.entries,
                                     !.reported = <<Len(nms)>>]

\* the tab that takes the first column when there is no column named Name
tab_excel_any_column(file, fmt, clicked, stanzas) ==
    IF ~file.readable THEN [NoTabOutput EXCEPT !.errors = ReadError(file)]
    ELSE IF ~clicked THEN NoTabOutput
    ELSE generate_all(file.cells, fmt, stanzas)

\* the tab with an uploaded file (lines 244-291); clicked is what st.button
\* returns where the script reaches it
tab_excel(file, fmt, clicked, stanzas) ==
    IF ~file.readable THEN [NoTabOutput EXCEPT !.errors = ReadError(file)]
    ELSE IF ~file.has_name THEN [NoTabOutput EXCEPT !.errors = NoColumnError]
    ELSE IF ~clicked THEN NoTabOutput
    ELSE generate_all(file.cells, fmt, stanzas)

\* if uploaded_file is not None: ... else: st.info(...)
excel_tab(file_opt, fmt, clicked, stanzas) ==
    IF file_opt = <<>> THEN NoTabOutput ELSE tab_excel(file_opt[1], fmt, clicked, stanzas)

\* ---- one script run: the module-level load, then both tabs
\* st.cache_data computes a missing value under a lock: the first run to miss
\* takes the lock and computes, the others block until it is released and then
\* read the cache again
LockFree == \A t \in Sessions : pc[t] # "fetching"

run_vars == <<fetched, halted, verses_119, stanzas_119, errors, format_choice_single,
              single_resolved, download, uploaded, batch_format, batch_resolved,
              zip_made, zip_entries, names, reported>>

\* a run of session s reaches load_tehillim_119() (line 170), finds no cached
\* value and blocks on the lock another session holds
RunWaits(s) ==
    /\ pc[s] = "idle"
    /\ ~CacheHit
    /\ ~LockFree
    /\ pc' = [pc EXCEPT ![s] = "waiting"]
    /\ UNCHANGED <<pdf_renders, cache, fetches, loaded, run_vars, pure_vars>>

\* a run of session s, new or unblocked, finds no cached value, takes the lock
\* and calls requests.get (line 43)
RunFetches(s) ==
    /\ pc[s] \in {"idle", "waiting"}
    /\ ~CacheHit
    /\ LockFree
    /\ fetches < MaxFetches
    /\ pc' = [pc EXCEPT ![s] = "fetching"]
    /\ fetches' = fetches + 1
    /\ UNCHANGED <<pdf_renders, cache, loaded, run_vars, pure_vars>>

\* a run of session s, new or unblocked, finds the cached value: the call of
\* line 170 returns it and the body of load_tehillim_119 does not run
RunHits(s) ==
    /\ pc[s] \in {"idle", "waiting"}
    /\ CacheHit
    /\ pc' = [pc EXCEPT ![s] = "loaded"]
    /\ loaded' = [loaded EXCEPT ![s] = <<[fetched |-> <<>>, res |-> Returned(cache[1])]>>]
    /\ UNCHANGED <<pdf_renders, cache, fetches, run_vars, pure_vars>>

\* the request of session s is answered (outcome) and the body of
\* load_tehillim_119 ends with res: a value returned is stored in the cache, an
\* exception stores nothing; the lock is released and the call of line 170
\* returns or raises
RunAnswered(s, outcome, res) ==
    /\ pc[s] = "fetching"
    /\ pc' = [pc EXCEPT ![s] = "loaded"]
    /\ loaded' = [loaded EXCEPT ![s] = <<[fetched |-> <<outcome>>, res |-> res]>>]
    /\ cache' = IF res.raised THEN cache ELSE <<res.value>>
    /\ UNCHANGED <<pdf_renders, fetches, run_vars, pure_vars>>

\* the rest of a run of session s, from the return of load_tehillim_119() at
\* line 170 to the end of the script: res is what the call gave, stz the
\* stanzas built from it (line 171), sout what the single tab shows and eout
\* what the Excel tab shows; fcs and bf are the two radios, file_opt the
\* uploader
ScriptRun(s, res, stz, sout, eout, fcs, bf, file_opt) ==
    /\ pc[s] = "loaded"
    /\ pc' = [pc EXCEPT ![s] = "idle"]
    /\ loaded' = [loaded EXCEPT ![s] = <<>>]
    /\ fetched' = loaded[s][1].fetched
    /\ halted' = res.raised
    /\ verses_119' = res.value
    /\ stanzas_119' = stz
    /\ errors' = sout.errors \o eout.errors
    /\ format_choice_single' = fcs
    /\ single_resolved' = sout.resolved
    /\ download' = sout.download
    /\ uploaded' = file_opt
    /\ batch_format' = bf
    /\ batch_resolved' = eout.resolved
    /\ zip_made' = eout.zip_made
    /\ zip_entries' = eout.zip_entries
    /\ names' = eout.names
    /\ reported' = eout.reported
    /\ UNCHANGED <<pdf_renders, cache, fetches, pure_vars>>

\* the call of line 170 raised: the script stops there, before build_stanzas
\* and the widgets
RunLoadFails(s, res) ==
    /\ res.raised
    /\ ScriptRun(s, res, <<>>, NoSingleOutput, NoTabOutput, "", "", <<>>)

\* a run with no button clicked and no file in the uploader; the radios are
\* what the user last picked
RunIdle(s, res, stz, fcs, bf) ==
    /\ ~res.raised
    /\ ScriptRun(s, res, stz, NoSingleOutput, NoTabOutput, fcs, bf, <<>>)

\* a run with "Generate for This Name" clicked; the Excel tab runs too, with
\* whatever its radio and the uploader hold and its button not clicked
RunSingle(s, res, stz, single_name, fcs, bf, file_opt) ==
    /\ ~res.raised
    /\ \E sout \in {tab_single(single_name, fcs, stz)} :
       \E eout \in {excel_tab(file_opt, bf, FALSE, stz)} :
          ScriptRun(s, res, stz, sout, eout, fcs, bf, file_opt)

\* a run with a file in the uploader and the single tab's button not clicked
RunExcel(s, res, stz, file, fcs, bf, clicked) ==
    /\ ~res.raised
    /\ \E eout \in {excel_tab(<<file>>, bf, clicked, stz)} :
          ScriptRun(s, res, stz, NoSingleOutput, eout, fcs, bf, <<file>>)

Formats == {"DOCX", "PDF"}

\* ---- inputs of the tabs
\* the no-break space U+00A0, a whitespace character that is not " "
NBSP == " "

CellValues ==
    { NaN, StrCell(<<NBSP>>), IntCell(123), StrCell(<<"ד", "ו", "ד">>),
      StrCell(<<"\f", "מ", "ש", "ה">>) }

\* a file pd.read_excel raises on (error is the text of the exception), a
\* sheet without a column named Name, a sheet with the Name column cells
Unreadable ==
    [readable |-> FALSE, has_name |-> FALSE, cells |-> <<>>,
     error |-> <<"Excel file format cannot be determined, you must specify an engine manually.">>]
NoNameColumn == [readable |-> TRUE, has_name |-> FALSE,
                 cells |-> <<StrCell(<<"ד", "ו", "ד">>)>>, error |-> <<>>]
Sheet(cells) == [readable |-> TRUE, has_name |-> TRUE, cells |-> cells, error |-> <<>>]

Files == {Unreadable, NoNameColumn} \cup { Sheet(c) : c \in SeqsUpTo(CellValues, MaxRows) }

SingleNames ==
    { <<>>, <<" ">>, <<NBSP>>, <<"\f">>, <<"ד", "ו", "ד">>, <<" ", "\r", "ד", "ו", "ד">>,
      <<"1", "2", "3">>, <<"ך">>, <<"כ">>,
      <<" ", "י", "צ", "ח", "ק", " ", "ב", "ן", " ">>, <<"a", " ", "!">>, <<"א", "א">> }

\* what the uploader may hold while the Excel tab's button is not clicked
UploaderStates ==
    { <<>>, <<Unreadable>>, <<NoNameColumn>>, <<Sheet(<<StrCell(<<"ד", "ו", "ד">>)>>)>> }

\* ---- the process from its start: sessions, loads, cache, a few tab inputs
\* (a run that generates leaves the other tab's radio on its default and its
\* uploader empty; SpecTabs below runs every combination)
SessionNames == { <<"ד", "ו", "ד">>, <<"1", "2", "3">> }
SessionFiles == { Unreadable, Sheet(<<IntCell(123), StrCell(<<"ד", "ו", "ד">>)>>) }

Init ==
    /\ pdf_renders \in BOOLEAN
    /\ MachineStart
    /\ PureOff

Waits == \E s \in Sessions : RunWaits(s)

Fetches == \E s \in Sessions : RunFetches(s)

Hits == \E s \in Sessions : RunHits(s)

Answered ==
    \E s \in Sessions, outcome \in FetchOutcomes :
        \E res \in {LoadResults[outcome]} : RunAnswered(s, outcome, res)

\* res is what load_tehillim_119() gave the run (line 170), stz what
\* build_stanzas makes of it (line 171)
LoadFails ==
    \E s \in Sessions :
        /\ pc[s] = "loaded"
        /\ \E res \in {loaded[s][1].res} : RunLoadFails(s, res)

Idle ==
    \E s \in Sessions :
        /\ pc[s] = "loaded"
        /\ \E res \in {loaded[s][1].res} :
           \E stz \in {build_stanzas(res.value)} :
               \E fcs \in Formats, bf \in Formats : RunIdle(s, res, stz, fcs, bf)

GenerateSingle ==
    \E s \in Sessions :
        /\ pc[s] = "loaded"
        /\ \E res \in {loaded[s][1].res} :
           \E stz \in {build_stanzas(res.value)} :
               \E nm \in SessionNames, fcs \in Formats :
                   RunSingle(s, res, stz, nm, fcs, "DOCX", <<>>)

GenerateBatch ==
    \E s \in Sessions :
        /\ pc[s] = "loaded"
        /\ \E res \in {loaded[s][1].res} :
           \E stz \in {build_stanzas(res.value)} :
               \E file \in SessionFiles, bf \in Formats :
                   RunExcel(s, res, stz, file, "DOCX", bf, TRUE)

Next ==
    Waits \/ Fetches \/ Hits \/ Answered \/ LoadFails \/ Idle \/ GenerateSingle
        \/ GenerateBatch

Spec == Init /\ [][Next]_vars

\* ---- the tabs of one session of a process whose load has succeeded
LoadedOutcome == [kind |-> "ok", n |-> NumVerses, v |-> 1]

InitTabs ==
    /\ PureOff
    /\ pdf_renders \in BOOLEAN
    /\ \E verses \in {load_tehillim_119(LoadedOutcome).value} :
          /\ cache = <<verses>>
          /\ verses_119 = verses
          /\ stanzas_119 = build_stanzas(verses)
    /\ fetched = <<LoadedOutcome>>
    /\ fetches = 1
    /\ pc = [s \in Sessions |-> "idle"]
    /\ loaded = [s \in Sessions |-> <<>>]
    /\ halted = FALSE
    /\ errors = <<>>
    /\ format_choice_single = "DOCX" /\ single_resolved = <<>> /\ download = <<>>
    /\ uploaded = <<>> /\ batch_format = "DOCX" /\ batch_resolved = <<>>
    /\ zip_made = FALSE /\ zip_entries = <<>> /\ names = <<>> /\ reported = <<>>

\* the next run of the session starts: line 170 is answered from the cache
TabsLoad == RunHits(1)

TabsIdle ==
    /\ pc[1] = "loaded"
    /\ \E res \in {loaded[1][1].res} :
       \E stz \in {build_stanzas(res.value)} :
           \E fcs \in Formats, bf \in Formats : RunIdle(1, res, stz, fcs, bf)

TabsSingle ==
    /\ pc[1] = "loaded"
    /\ \E res \in {loaded[1][1].res} :
       \E stz \in {build_stanzas(res.value)} :
           \E nm \in SingleNames, fcs \in Formats, bf \in Formats,
              file_opt \in UploaderStates :
               RunSingle(1, res, stz, nm, fcs, bf, file_opt)

TabsUpload ==
    /\ pc[1] = "loaded"
    /\ \E res \in {loaded[1][1].res} :
       \E stz \in {build_stanzas(res.value)} :
           \E file_opt \in UploaderStates \ {<<>>}, fcs \in Formats, bf \in Formats :
               RunExcel(1, res, stz, file_opt[1], fcs, bf, FALSE)

TabsBatch ==
    /\ pc[1] = "loaded"
    /\ \E res \in {loaded[1][1].res} :
       \E stz \in {build_stanzas(res.value)} :
           \E file \in Files, fcs \in Formats, bf \in Formats :
               RunExcel(1, res, stz, file, fcs, bf, TRUE)

NextTabs == TabsLoad \/ TabsIdle \/ TabsSingle \/ TabsUpload \/ TabsBatch

SpecTabs == InitTabs /\ [][NextTabs]_vars

\* ---- get_stanzas_for_name on every name over NameChars up to MaxNameLen
NameChars == {"ד", "ו", "א", "כ", "ך", "מ", "ם", "ן", "ף", "ץ", " ", "\t", NBSP, "1", "a"}

\* two lists of 22 stanzas; the resolver never looks inside a stanza
StanzaLists == { [i \in 1..Len(ALEPH_BET) |-> <<tag, i - 1>>] : tag \in {"s", "t"} }

InitResolver ==
    /\ MachineOff
    /\ fpc = "ready"
    /\ r_name \in SeqsUpTo(NameChars, MaxNameLen)
    /\ r_stanzas \in StanzaLists
    /\ r_sections = <<>>
    /\ c_tokens = <<>> /\ c_out = <<>> /\ c_error = <<>>
    /\ p_verses = <<>> /\ p_out = <<>>

Resolve ==
    /\ fpc = "ready"
    /\ r_sections' = get_stanzas_for_name(r_name, r_stanzas)
    /\ fpc' = "done"
    /\ UNCHANGED <<machine_vars, r_name, r_stanzas, c_tokens, c_out, c_error, p_verses,
                   p_out>>

NextResolver == Resolve

SpecResolver == InitResolver /\ [][NextResolver]_vars

\* ---- clean_hebrew_verse on every concatenation of up to MaxTokens tokens
TagTokens == { <<"<", "b", ">">> }
EntityTokens ==
    { <<"&", "l", "t", ";">>, <<"&", "g", "t", ";">>, <<"&", "n", "b", "s", "p", ";">>,
      <<"&", "#", "1", "4", "8", "8", ";">> }
EscapedAmp == <<"&", "a", "m", "p", ";">>
MarkerTokens == { MarkerPe, MarkerSamekh }
SpaceTokens == { <<" ">> }
TextTokens == { <<"b">>, <<"l", "t", ";">> }
\* ordinary text that is a piece of a marker: "{" and "פ}"
BraceTokens == { <<"{">>, <<"פ", "}">> }

Tokens ==
    TagTokens \cup EntityTokens \cup {EscapedAmp} \cup MarkerTokens
        \cup SpaceTokens \cup TextTokens \cup BraceTokens

InitClean ==
    /\ MachineOff
    /\ fpc = "ready"
    /\ c_tokens \in SeqsUpTo(Tokens, MaxTokens)
    /\ c_out = <<>> /\ c_error = <<>>
    /\ r_name = <<>> /\ r_stanzas = <<>> /\ r_sections = <<>>
    /\ p_verses = <<>> /\ p_out = <<>>

Clean ==
    /\ fpc = "ready"
    /\ \E res \in {clean_hebrew_verse(Flatten(c_tokens))} :
          /\ c_out' = res.value
          /\ c_error' = res.error
    /\ fpc' = "done"
    /\ UNCHANGED <<machine_vars, r_name, r_stanzas, r_sections, c_tokens, p_verses, p_out>>

NextClean == Clean

SpecClean == InitClean /\ [][NextClean]_vars

\* ---- build_stanzas on 176-verse lists; verse k is the text str(a*k + b)
MaxStride == 5
MaxOffset == 9

InitPartition ==
    /\ MachineOff
    /\ fpc = "ready"
    /\ \E a \in 1..MaxStride, b \in 0..MaxOffset :
          p_verses = [k \in 1..NumVerses |-> str_int(a * k + b)]
    /\ p_out = <<>>
    /\ r_name = <<>> /\ r_stanzas = <<>> /\ r_sections = <<>>
    /\ c_tokens = <<>> /\ c_out = <<>> /\ c_error = <<>>

Partition ==
    /\ fpc = "ready"
    /\ p_out' = build_stanzas(p_verses)
    /\ fpc' = "done"
    /\ UNCHANGED <<machine_vars, r_name, r_stanzas, r_sections, c_tokens, c_out, c_error,
                   p_verses>>

NextPartition == Partition

SpecPartition == InitPartition /\ [][NextPartition]_vars

\* ------------------------------------------------------------- vocabulary
Letters == { ALEPH_BET[i] : i \in 1..Len(ALEPH_BET) }
Finals == {"ך", "ם", "ן", "ף", "ץ"}

\* the base (non-final) form of a recognized character
BaseForm(c) ==
    CASE c = "ך" -> "כ" [] c = "ם" -> "מ" [] c = "ן" -> "נ"
      [] c = "ף" -> "פ" [] c = "ץ" -> "צ" [] OTHER -> c

IsRecognized(c) == c \in Letters \cup Finals

AlphabetIndex(l) == CHOOSE i \in 0..(Len(ALEPH_BET) - 1) : ALEPH_BET[i + 1] = l

\* C1: get_stanzas_for_name returns one (letter, stanza) pair per character of
\* the name that is an alphabet letter or a final form, in the order of those
\* characters; the letter is the base letter and the stanza is
\* stanzas[index of that letter in ALEPH_BET]; every other character gives
\* nothing and a letter occurring k times gives k entries. (Trimming removes
\* whitespace only, which is never recognized.)
C1_OnePairPerLetter ==
    fpc = "done" /\ r_stanzas # <<>> =>
        LET rec == SelectSeq(r_name, IsRecognized)
        IN  /\ Len(r_sections) = Len(rec)
            /\ \A k \in 1..Len(rec) :
                  r_sections[k] =
                      <<BaseForm(rec[k]), r_stanzas[AlphabetIndex(BaseForm(rec[k])) + 1]>>

\* a name "x x" with a repeated letter around a space gave two equal entries
C1_Witness ==
    /\ fpc = "done"
    /\ Len(r_name) = 3 /\ r_name[2] = " " /\ r_name[1] = "ד" /\ r_name[3] = "ד"
    /\ Len(r_sections) = 2
    /\ r_sections[1] = r_sections[2]

\* C2: final-letter folding: replacing an occurrence of a final form in the
\* name by its base form leaves the result of get_stanzas_for_name unchanged.
C2_FinalFolding ==
    fpc = "done" /\ r_stanzas # <<>> =>
        \A i \in 1..Len(r_name) :
            r_name[i] \in Finals =>
                get_stanzas_for_name([r_name EXCEPT ![i] = BaseForm(r_name[i])],
                                     r_stanzas) = r_sections

\* the one-character name of a final form gave the pair of its base form
C2_Witness ==
    /\ fpc = "done"
    /\ r_name = <<"ך">>
    /\ r_sections = << <<"כ", r_stanzas[11]>> >>

\* C6: build_stanzas of 176 verses returns 22 stanzas of 8 verses each, and
\* verse j of stanza i is the input verse at position 8*i+j.
C6_Partition ==
    fpc = "done" /\ Len(p_verses) = 176 =>
        /\ Len(p_out) = 22
        /\ \A i \in 0..21 :
              /\ Len(p_out[i + 1]) = 8
              /\ \A j \in 0..7 : p_out[i + 1][j + 1] = p_verses[8 * i + j + 1]

\* the last verse of the last stanza is input verse 175 (0-based)
C6_Witness ==
    /\ fpc = "done"
    /\ Len(p_verses) = 176
    /\ Len(p_out) = 22
    /\ p_out[22][8] = p_verses[176]
    /\ p_out[1][1] # p_out[22][8]

\* ---- artifacts of a cleaned verse
HasTag(s) ==
    \E i \in 1..Len(s) :
        /\ s[i] = "<"
        /\ \E j \in (i + 2)..Len(s) :
              s[j] = ">" /\ \A k \in (i + 1)..(j - 1) : s[k] # ">"

\* a "&" followed by a name of the HTML5 table, or by "#" and a decimal or
\* hexadecimal number
HasEntity(s) ==
    \E i \in 1..Len(s) :
        /\ s[i] = "&"
        /\ \/ \E n \in 2..(Len(s) - i) : SubSeq(s, i + 1, i + n) \in Html5Names
           \/ /\ i + 2 <= Len(s)
              /\ s[i + 1] = "#"
              /\ \/ IsDigit(s[i + 2], 10)
                 \/ /\ i + 3 <= Len(s)
                    /\ s[i + 2] \in {"x", "X"}
                    /\ IsDigit(s[i + 3], 16)

HasMarker(s) ==
    \E i \in 1..Len(s) : StartsWithAt(s, i, MarkerPe) \/ StartsWithAt(s, i, MarkerSamekh)

EdgeWhitespace(s) == s # <<>> /\ (s[1] \in Whitespace \/ s[Len(s)] \in Whitespace)

\* no escaped ampersand and no brace outside a complete parsha marker
PlainTokens(toks) == \A i \in 1..Len(toks) : toks[i] \notin ({EscapedAmp} \cup BraceTokens)

\* C9 as stated: for every raw verse built from tags, entities, markers,
\* whitespace and text in any arrangement (nested or escaped ones included),
\* the cleaner returns a verse that has no tag, no entity, no parsha marker
\* and no leading or trailing whitespace.
C9_NoArtifactsAnyArrangement ==
    fpc = "done" /\ c_tokens # <<>> =>
        /\ c_error = <<>>
        /\ ~HasTag(c_out)
        /\ ~HasEntity(c_out)
        /\ ~HasMarker(c_out)
        /\ ~EdgeWhitespace(c_out)

\* C9 amended: for every raw verse built from tags, entities, markers,
\* whitespace and text, the cleaner returns a verse that has no tag and no
\* leading or trailing whitespace; the verse has no entity and no parsha
\* marker when the raw verse has no escaped ampersand and no brace outside a
\* complete marker.
C9_NoArtifactsPlain ==
    fpc = "done" /\ c_tokens # <<>> =>
        /\ c_error = <<>>
        /\ ~HasTag(c_out)
        /\ ~EdgeWhitespace(c_out)
        /\ PlainTokens(c_tokens) => ~HasEntity(c_out) /\ ~HasMarker(c_out)

\* a plain raw verse holding a tag, an entity, a marker and a space was cleaned
C9_Witness ==
    /\ fpc = "done"
    /\ c_error = <<>>
    /\ PlainTokens(c_tokens)
    /\ Len(c_tokens) = 4
    /\ c_tokens[1] \in SpaceTokens
    /\ \E i, j, k \in 2..4 :
          /\ c_tokens[i] \in TagTokens
          /\ c_tokens[j] \in EntityTokens
          /\ c_tokens[k] \in MarkerTokens
    /\ Len(c_out) = 1

\* ---- documents of a run
NoRecognizedLetters(n) == \A i \in 1..Len(n) : ~IsRecognized(n[i])

HasRecognizedLetter(n) == \E i \in 1..Len(n) : IsRecognized(n[i])

\* the (letter, stanza) sections a document holds after its title
ContentSections(doc) ==
    IF doc.fmt = "docx" THEN (Len(doc.paragraphs) - 2) \div 10
    ELSE (Len(doc.paragraphs) - 1) \div 9

AllResolved == single_resolved \o batch_resolved

DocumentsMade ==
    { download[i].data : i \in 1..Len(download) }
        \cup { zip_entries[i].data : i \in 1..Len(zip_entries) }

\* C3: for a name with no alphabet letter and no final form,
\* get_stanzas_for_name yields an empty result and both builders raise the
\* no-recognized-letters error before any document content is created (also
\* where the PDF library would fail), so the run shows that error, offers no
\* download, and no document with zero content sections is ever produced.
C3_NoLettersNoDocument ==
    /\ \A i \in 1..Len(AllResolved) :
          NoRecognizedLetters(AllResolved[i]) =>
              /\ get_stanzas_for_name(AllResolved[i], stanzas_119) = <<>>
              /\ build_docx_bytes_for_name(AllResolved[i], stanzas_119)
                     = Raised(NoLettersError(AllResolved[i]))
              /\ build_pdf_bytes_for_name(AllResolved[i], stanzas_119)
                     = Raised(NoLettersError(AllResolved[i]))
    /\ \A i \in 1..Len(single_resolved) :
          NoRecognizedLetters(single_resolved[i]) =>
              /\ download = <<>>
              /\ errors # <<>>
              /\ errors[1] = <<"Error: ">> \o NoLettersError(single_resolved[i])
    /\ \A doc \in DocumentsMade : ContentSections(doc) >= 1
    /\ Len(download) + Len(zip_entries)
           <= Cardinality({ i \in 1..Len(AllResolved) : HasRecognizedLetter(AllResolved[i]) })

\* the single tab was asked for the PDF of "123" where the PDF library fails
C3_Witness ==
    /\ single_resolved = << <<"1", "2", "3">> >>
    /\ uploaded = <<>>
    /\ format_choice_single = "PDF"
    /\ ~pdf_renders
    /\ download = <<>>
    /\ errors = << <<"Error: ">> \o NoLettersError(<<"1", "2", "3">>) >>

\* ---- batch
\* the cell of the Name column gives an output file in the run's format
CellSucceeds(c) ==
    /\ c.kind # "nan"
    /\ HasRecognizedLetter(str_cell(c))
    /\ batch_format = "DOCX" \/ pdf_renders

CellIsName(c) == c.kind # "nan" /\ \E i \in 1..Len(str_cell(c)) : str_cell(c)[i] \notin Whitespace

\* C4: batch skip-and-continue: the archive holds exactly one entry, in order,
\* for each value of the Name column whose resolution and rendering succeed and
\* none for a value that fails or is blank or missing; every non-blank name is
\* processed, whatever failed before it.
C4_SkipAndContinue ==
    zip_made =>
        LET cells == uploaded[1].cells
            good == SelectSeq(cells, CellSucceeds)
            tried == SelectSeq(cells, CellIsName)
        IN  /\ Len(zip_entries) = Len(good)
            /\ \A k \in 1..Len(good) :
                  /\ zip_entries[k].data.paragraphs[1] = TitlePrefix \o strip(str_cell(good[k]))
                  /\ zip_entries[k].file_name
                         = SafeName(strip(str_cell(good[k]))) \o Ext(batch_format)
            /\ Len(batch_resolved) = Len(tried)
            /\ \A k \in 1..Len(tried) : batch_resolved[k] = strip(str_cell(tried[k]))

\* the column [123, "דוד"] gave an archive of one entry, both names processed
C4_Witness ==
    /\ zip_made
    /\ uploaded = << Sheet(<<IntCell(123), StrCell(<<"ד", "ו", "ד">>)>>) >>
    /\ Len(batch_resolved) = 2
    /\ Len(zip_entries) = 1
    /\ zip_entries[1].data.paragraphs[1] = TitlePrefix \o <<"ד", "ו", "ד">>

\* C5: the count in the success message of a batch run equals the number of
\* names for which an output file was written to the archive.
C5_ReportedCountIsSuccesses ==
    reported # <<>> => reported[1] = Len(zip_entries)

\* C10: an upload that cannot be read or has no column named Name gets the
\* error message of its defect as the last message of the run, and nothing is
\* done for that upload: no name of it is resolved, no document is rendered
\* from it and no archive is created; this holds whether or not the single
\* tab's button was clicked in the same run.
C10_MalformedUploadIsFatal ==
    uploaded # <<>> /\ (~uploaded[1].readable \/ ~uploaded[1].has_name) =>
        /\ errors # <<>>
        /\ Len(errors) <= 2
        /\ <<errors[Len(errors)]>> =
               (IF uploaded[1].readable THEN NoColumnError ELSE ReadError(uploaded[1]))
        /\ batch_resolved = <<>>
        /\ names = <<>>
        /\ ~zip_made
        /\ zip_entries = <<>>
        /\ reported = <<>>

\* a run with the single tab's button clicked while the uploader held a sheet
\* whose only column is not called Name: the single tab offered its download,
\* the Excel tab showed the error and did nothing else
C10_Witness ==
    /\ uploaded = <<NoNameColumn>>
    /\ download # <<>>
    /\ errors = NoColumnError
    /\ batch_resolved = <<>>
    /\ ~zip_made

\* ---- load
BadFetch(o) == o.kind # "ok" \/ o.n # 176

\* C7: a fetch that raises a transport error, returns a non-success status, a
\* payload without the verse field or a number of verses other than 176 makes
\* load_tehillim_119 raise and return no verses; the run whose load raised
\* ends halted with no verses, build_stanzas not called, no name resolved and
\* no document rendered; a load returns, and the cache holds, nothing but 176
\* verses, and stanzas are only ever built from exactly 176 verses. (The
\* cache may hold the verses of another session's load while the halted run
\* is the last one that ended.)
C7_FetchFailureIsFatal ==
    /\ \A s \in Sessions :
          pc[s] = "loaded" =>
              /\ loaded[s][1].fetched # <<>> /\ BadFetch(loaded[s][1].fetched[1]) =>
                    /\ loaded[s][1].res.raised
                    /\ loaded[s][1].res.value = <<>>
              /\ ~loaded[s][1].res.raised =>
                    /\ Len(loaded[s][1].res.value) = 176
                    /\ cache = <<loaded[s][1].res.value>>
    /\ cache # <<>> => Len(cache[1]) = 176
    /\ fetched # <<>> /\ BadFetch(fetched[1]) => halted
    /\ halted =>
          /\ verses_119 = <<>>
          /\ stanzas_119 = <<>>
          /\ single_resolved = <<>>
          /\ batch_resolved = <<>>
          /\ download = <<>>
          /\ ~zip_made
          /\ zip_entries = <<>>
    /\ stanzas_119 # <<>> =>
          /\ ~halted
          /\ Len(verses_119) = 176
          /\ stanzas_119 = build_stanzas(verses_119)

\* a run whose fetch returned 177 verses ended halted after the load of
\* another session had filled the cache
C7_Witness ==
    /\ halted
    /\ fetched # <<>>
    /\ fetched[1].kind = "ok"
    /\ fetched[1].n = 177
    /\ cache # <<>>
    /\ \E s \in Sessions : pc[s] = "loaded" /\ ~loaded[s][1].res.raised

\* C8: memoized fetch: once a load has succeeded the cached value never
\* changes, no request is in flight and none is made again; every call of
\* load_tehillim_119() made from then on returns the cached 176 verses without
\* a fetch, no run answered from the cache halts, and every run that reaches
\* build_stanzas, the run that fetched included, works on the cached verses.
C8_MemoizedFetch ==
    [][cache # <<>> =>
          /\ cache' = cache
          /\ Len(cache[1]) = 176
          /\ fetches' = fetches
          /\ \A s \in Sessions :
                /\ pc[s] # "fetching" /\ pc'[s] # "fetching"
                /\ pc[s] \in {"idle", "waiting"} /\ pc'[s] # pc[s] =>
                      /\ pc'[s] = "loaded"
                      /\ loaded'[s] = <<[fetched |-> <<>>, res |-> Returned(cache[1])]>>
                /\ pc'[s] = "loaded" /\ ~loaded'[s][1].res.raised =>
                      loaded'[s][1].res.value = cache[1]
          /\ halted' => fetched' # <<>>
          /\ ~halted' /\ verses_119' # <<>> =>
                /\ verses_119' = cache[1]
                /\ stanzas_119' = build_stanzas(cache[1])]_vars

\* after two fetches, the second one made while the first run had not ended, a
\* run answered from the cache generated a document
C8_Witness ==
    /\ cache # <<>>
    /\ fetched = <<>>
    /\ fetches = 2
    /\ ~halted
    /\ verses_119 = cache[1]
    /\ download # <<>>
    /\ \E s \in Sessions : pc[s] = "loaded" /\ loaded[s][1].res.raised

====
